---- MODULE Spec2Model ----
(***************************************************************************)
(* State-machine model of the trading agent's contract security analyzer   *)
(* (src/src/security/contract_analyzer.py), the memecoin sniper            *)
(* (src/src/strategies/memecoin_sniper.py) and the altcoin swing trader    *)
(* (src/src/strategies/altcoin_trader.py), with the price oracle           *)
(* (src/src/utils/price_calculator.py), the loading of the configuration   *)
(* (src/src/core/config.py) and the start and stop of a strategy.          *)
(*                                                                         *)
(* Specifications: SpecAnalyzer (the analyzer), SpecStrategies (the        *)
(* handlers of both strategies), SpecConfig (the same under every accepted *)
(* configuration), SpecSwaps (the same with swaps that can fail),          *)
(* SpecSignal (the signal combination), SpecPrice (the price oracle),      *)
(* SpecLifecycle (start, stop and the tasks, with fairness), SpecCombine   *)
(* and SpecGather (the analyzer's checks and their combination), SpecBoot  *)
(* (the start of the process), SpecMonitor (the sniper's monitor loop),    *)
(* SpecSignalLoop and SpecSwing (the trader's signal loop, sizing and      *)
(* rebalancing), SpecExposure (the sniper's investment limit), SpecAlerts  *)
(* (the bot's alerts) and SpecRestart (repeated start and stop).           *)
(*                                                                         *)
(* Units.  The analyzer's risk_score is a float (see FloatRound); other    *)
(* scores and weights are exact tenths (strength 1.0 = 10).                *)
(* Taxes and rates are whole percents.  Time is whole seconds.  Money is   *)
(* whole cents.                                                            *)
(***************************************************************************)
EXTENDS Integers, Sequences, FiniteSets, TLC

VARIABLES
    now,                    \* wall clock, datetime.now() / time.time(), seconds
    \* ---- ContractAnalyzer --------------------------------------------
    analysis_cache,         \* self.analysis_cache: lowercased address -> SecurityResult
    blacklisted_addresses,  \* self.blacklisted_addresses
    last,                   \* observation of the latest public call and its return value
    prior,                  \* history: lowercased address -> latest analyze_contract
                            \* return for it (and when) since the last clear_cache
    \* ---- configuration and scheduling --------------------------------
    dry_run_mode,           \* config.dry_run_mode
    strategy,               \* the strategy whose loops are running
    trading,                \* config.trading: the four multipliers, in hundredths
    swap_ok,                \* whether a swap sent now returns a transaction hash
    \* ---- MemecoinSniper ----------------------------------------------
    sn_positions,           \* self.positions restricted to SniperTokens
    sn_other_positions,     \* number of entries of self.positions for other tokens
    sn_blacklisted_tokens,  \* self.blacklisted_tokens
    sn_opportunities,       \* self.opportunities restricted to SniperTokens
    sn_total_invested,      \* self.total_invested, cents
    sn_total_profit,        \* self.total_profit, cents
    sn_successful_trades,   \* self.successful_trades
    sn_failed_trades,       \* self.failed_trades
    sn_last_purchase_time,  \* self.last_purchase_time
    \* ---- AltcoinTrader -----------------------------------------------
    at_heap,                \* every AltcoinPosition object created, in order
    at_positions,           \* self.positions: token -> index of its object in at_heap
    at_available_balance_usd, \* cents
    at_total_trades,
    at_profitable_trades,
    at_total_profit_usd,    \* cents
    at_pm,                  \* where _position_management_loop stands
    \* ---- _generate_trading_signal as a function -----------------------
    sig_indicators,         \* the indicators dict handed to the signal combination
    sig_signal,             \* the AltcoinSignal it returned (type, strength in tenths)
    \* ---- PriceCalculator ---------------------------------------------
    price_cache,            \* self.price_cache: key -> [price, timestamp]
    px_returned,            \* what the latest get_token_price_eth returned
    \* ---- start() / stop() of the strategy -----------------------------
    is_running,             \* self.is_running
    start_call,             \* the start() call: "none", "gathering", "returned", "raised"
    task_pc,                \* task created by start() -> where it stands
    ws_pending,             \* a message waits in the websocket connection
    stop_requested,         \* stop() has been called on the running strategy
    \* ---- _combine_analysis_results as a function ---------------------
    comb_results,           \* the outputs of the five checks handed to the combination
    comb_out,               \* the SecurityResult it returned
    \* ---- the asyncio.gather of analyze_contract ----------------------
    ga_call,                \* the analyze_contract call that runs its checks
    ga_tasks,               \* check -> "pending", "returned" or "failed"
    \* ---- main() of the process ---------------------------------------
    boot_env,               \* os.environ: required variable -> its value
    boot,                   \* where main() stands and what has been started
    \* ---- the task of MemecoinSniper._monitor_positions ----------------
    sn_monitor_pc,          \* "pass": about to run a pass, "sleep": in asyncio.sleep
    \* ---- AltcoinTrader: price history, sizing and rebalancing --------
    at_price_history,       \* len(self.price_history[token]) of the traded token
    at_max_investment,      \* config.trading.altcoin_max_investment_usd, cents
    at_portfolio_value_usd, \* self.portfolio_value_usd, cents
    at_peak_portfolio_value, \* self.peak_portfolio_value, cents
    at_max_drawdown,        \* self.max_drawdown, ten-thousandths
    \* ---- TelegramBot.send_alert --------------------------------------
    last_alert_time,        \* self.last_alert_time: alert type -> timestamp
    alert_sent,             \* alert type -> times at which _send_message was called
    \* ---- MemecoinSniper.total_invested as a float --------------------
    fl_max_investment,      \* config.trading.max_memecoin_investment_usd, tenths of a USD
    fl_total_invested,      \* self.total_invested (see FloatRound)
    fl_positions,           \* len(self.positions)
    \* ---- start and stop commands of the Telegram bot -----------------
    strategy_active,        \* self.memecoin_sniper_active / self.altcoin_trader_active
    start_tasks,            \* start() tasks created and not yet run
    loop_instances          \* per start() that went through: loop -> where it stands

analyzerVars == <<analysis_cache, blacklisted_addresses, last, prior>>
configVars == <<dry_run_mode, strategy, trading, swap_ok>>
sniperTotals == <<sn_total_invested, sn_total_profit, sn_successful_trades,
                  sn_failed_trades>>
sniperVars == <<sn_positions, sn_other_positions, sn_blacklisted_tokens,
                sn_opportunities, sniperTotals, sn_last_purchase_time>>
traderTotals == <<at_available_balance_usd, at_total_trades, at_profitable_trades,
                  at_total_profit_usd>>
traderVars == <<at_heap, at_positions, traderTotals, at_pm>>
signalVars == <<sig_indicators, sig_signal>>
priceVars == <<price_cache, px_returned>>
lifecycleVars == <<is_running, start_call, task_pc, ws_pending, stop_requested>>
\* the parts that are followed in a specification of their own
combineVars == <<comb_results, comb_out>>
gatherVars == <<ga_call, ga_tasks>>
bootVars == <<boot_env, boot>>
swingVars == <<at_price_history, at_max_investment, at_portfolio_value_usd,
               at_peak_portfolio_value, at_max_drawdown>>
alertVars == <<last_alert_time, alert_sent>>
exposureVars == <<fl_max_investment, fl_total_invested, fl_positions>>
restartVars == <<strategy_active, start_tasks, loop_instances>>
lateVars == <<swingVars, alertVars, exposureVars, restartVars>>
extraVars == <<combineVars, gatherVars, bootVars, sn_monitor_pc, lateVars>>
utilVars == <<signalVars, priceVars, lifecycleVars, extraVars>>
vars == <<now, analyzerVars, configVars, utilVars, sniperVars, traderVars>>

(***************************************************************************)
(* Bounds of the model.                                                    *)
(***************************************************************************)
MaxTicks == 2               \* analyzer: the clock is explored up to MaxTicks half hours
MaxSlack == 1               \* strategies: the clock is explored up to max hold + MaxSlack
MaxOpportunities == 1       \* longest list of opportunities explored
MaxHeap == 2                \* most AltcoinPosition objects created
MaxPriceTicks == 2          \* price oracle: the clock is explored up to MaxPriceTicks
                            \* cache periods

Min(a, b) == IF a <= b THEN a ELSE b

(***************************************************************************)
(* Addresses.  An address is a sequence of characters; str.lower() maps    *)
(* each character.  "aB" and "Ab" are two spellings of one address, "z_"   *)
(* is a string that is no hex address, NoneAddr is a non-string argument.  *)
(***************************************************************************)
LowerChar(c) ==
    CASE c = "A" -> "a"
      [] c = "B" -> "b"
      [] OTHER   -> c

\* Lower without the case mapping.
Lower_Identity(s) == s

\* str.lower()
Lower(s) == [i \in DOMAIN s |-> LowerChar(s[i])]

NoneAddr == <<"None">>
HexChars == {"a", "b", "A", "B"}
StrAddrs == {<<"a", "B">>, <<"A", "b">>, <<"z", "_">>}
RawAddrs == StrAddrs \cup {NoneAddr}
IsStr(a) == a # NoneAddr
Malformed(a) == \E i \in DOMAIN a : a[i] \notin HexChars

EmptyDict == [x \in {} |-> 0]
DictPut(d, k, v) == [x \in (DOMAIN d) \cup {k} |-> IF x = k THEN v ELSE d[x]]

(***************************************************************************)
(* Time.                                                                   *)
(***************************************************************************)
cache_duration == 3600      \* timedelta(hours=1)
TickSteps == {1800, 3600}

(***************************************************************************)
(* What the outside world answers to each of the five checks.              *)
(***************************************************************************)
\* honeypot.is and TokenSniffer answers; hp_ok / ts_ok: HTTP 200 with JSON.
\* tax_null: the JSON carries null for BuyTax / SellTax.
HpEnv(hp_ok, is_honeypot, buy_tax, sell_tax, tax_null, ts_ok, is_scam) ==
    [hp_ok |-> hp_ok, is_honeypot |-> is_honeypot, buy_tax |-> buy_tax,
     sell_tax |-> sell_tax, tax_null |-> tax_null, ts_ok |-> ts_ok,
     is_scam |-> is_scam]

HpDown    == HpEnv(FALSE, FALSE, 0, 0, FALSE, FALSE, FALSE)
HpClean   == HpEnv(TRUE, FALSE, 0, 10, FALSE, TRUE, FALSE)
HpFlagged == HpEnv(TRUE, TRUE, 5, 99, FALSE, FALSE, FALSE)
HpHighTax == HpEnv(TRUE, FALSE, 11, 51, FALSE, FALSE, FALSE)
HpNullTax == HpEnv(TRUE, FALSE, 0, 0, TRUE, FALSE, FALSE)
HpScam    == HpEnv(FALSE, FALSE, 0, 0, FALSE, TRUE, TRUE)
HpAll     == HpEnv(TRUE, TRUE, 99, 99, FALSE, TRUE, TRUE)

HoneypotFailed(e) == ~e.hp_ok /\ ~e.ts_ok

\* eth.get_code: ok = the call returned; patterns = the pattern groups whose
\* selector occurs in the bytecode; small = fewer than 1000 hex characters.
CodeDown  == [ok |-> FALSE, patterns |-> {}, small |-> FALSE]
CodeClean == [ok |-> TRUE, patterns |-> {}, small |-> FALSE]
CodeXfer  == [ok |-> TRUE, patterns |-> {"transfer_restriction"}, small |-> FALSE]
CodeRisky == [ok |-> TRUE,
              patterns |-> {"transfer_restriction", "blacklist_functions"},
              small |-> FALSE]
CodeAll   == [ok |-> TRUE,
              patterns |-> {"transfer_restriction", "ownership_functions",
                            "blacklist_functions", "pause_functions",
                            "mint_functions"},
              small |-> TRUE]

\* BaseScan getsourcecode: "failed" = the request raised, "nodata" = no usable
\* answer, "ok" = an answer, with or without source code.
VerifDown == [outcome |-> "failed", verified |-> FALSE]
VerifNone == [outcome |-> "nodata", verified |-> FALSE]
VerifNo   == [outcome |-> "ok", verified |-> FALSE]
VerifYes  == [outcome |-> "ok", verified |-> TRUE]

\* BaseScan tokentx: rates in percent.
TxDown == [outcome |-> "failed", failure_rate |-> 0, bot_activity_score |-> 0]
TxNone == [outcome |-> "nodata", failure_rate |-> 0, bot_activity_score |-> 0]
TxCalm == [outcome |-> "ok", failure_rate |-> 30, bot_activity_score |-> 70]
TxBad  == [outcome |-> "ok", failure_rate |-> 40, bot_activity_score |-> 90]

Env(hp, code, verif, tx) == [hp |-> hp, code |-> code, verif |-> verif, tx |-> tx]

\* The answers explored: every check down; a clean token; and tokens that
\* reach each branch and each threshold of the combination.
CheckEnv ==
    { Env(HpDown,    CodeDown,  VerifDown, TxDown),
      Env(HpClean,   CodeClean, VerifYes,  TxCalm),
      Env(HpFlagged, CodeClean, VerifNo,   TxNone),
      Env(HpHighTax, CodeClean, VerifYes,  TxCalm),
      Env(HpNullTax, CodeClean, VerifYes,  TxCalm),
      Env(HpScam,    CodeDown,  VerifYes,  TxNone),
      Env(HpClean,   CodeRisky, VerifYes,  TxCalm),
      Env(HpDown,    CodeRisky, VerifNone, TxDown),
      Env(HpClean,   CodeXfer,  VerifYes,  TxBad),
      Env(HpAll,     CodeAll,   VerifNo,   TxBad) }

\* Every check that queries the outside world failed.
AllFailed(env) ==
    /\ HoneypotFailed(env.hp)
    /\ ~env.code.ok
    /\ env.verif.outcome = "failed"
    /\ env.tx.outcome = "failed"

\* A string that is no address is answered by failure everywhere.
EnvFor(a) == IF Malformed(a) THEN {e \in CheckEnv : AllFailed(e)} ELSE CheckEnv

(***************************************************************************)
(* The five checks: each catches its own exceptions and returns a dict.    *)
(***************************************************************************)
CheckHoneypotApi(e) ==
    [has_hp |-> e.hp_ok, is_honeypot |-> e.is_honeypot, buy_tax |-> e.buy_tax,
     sell_tax |-> e.sell_tax, tax_null |-> e.tax_null,
     has_ts |-> e.ts_ok, is_scam |-> e.is_scam]

AnalyzeContractCode(e) ==
    IF e.ok
    THEN [risk_factors |-> e.patterns \cup (IF e.small THEN {"small_contract"} ELSE {}),
          warnings |-> IF e.small THEN <<"Contract is unusually small">> ELSE <<>>]
    ELSE [risk_factors |-> {}, warnings |-> <<"Failed to analyze contract code">>]

CheckBasescanVerification(e) ==
    IF e.outcome = "ok" THEN [is_verified |-> e.verified]
    ELSE [is_verified |-> FALSE]

AnalyzeTransactionPatterns(e) ==
    CASE e.outcome = "failed" ->
           [failure_rate |-> 0, bot_activity_score |-> 0,
            warnings |-> <<"Failed to analyze transactions">>]
      [] e.outcome = "nodata" ->
           [failure_rate |-> 0, bot_activity_score |-> 0,
            warnings |-> <<"No transaction data available">>]
      [] OTHER ->
           [failure_rate |-> e.failure_rate,
            bot_activity_score |-> e.bot_activity_score,
            warnings |->
               (IF e.failure_rate > 30 THEN <<"High transaction failure rate">> ELSE <<>>)
               \o (IF e.bot_activity_score > 70
                   THEN <<"Possible bot activity detected">> ELSE <<>>)]

CheckLiquidityLocks == [liquidity_locked |-> "None"]

RunChecks(env) ==
    [hp |-> CheckHoneypotApi(env.hp), code |-> AnalyzeContractCode(env.code),
     verif |-> CheckBasescanVerification(env.verif),
     tx |-> AnalyzeTransactionPatterns(env.tx), liq |-> CheckLiquidityLocks]

(***************************************************************************)
(* risk_score is a Python float.  A float met here is a whole number t of  *)
(* tenths plus a deviation e, counted in units of 2^-56 / 5, so that the   *)
(* value is t/10 + e * 2^-56 / 5 and every double between 0.0625 and 16.0  *)
(* is such a pair.  FloatRound is IEEE-754 round-to-nearest, ties to even. *)
(***************************************************************************)
\* The spacing of the doubles around t tenths, in units: 2^-56 in
\* [0.0625, 0.125), doubling with each power of two up to 2^-49 in [8, 16).
FloatUlp(t, e) ==
    CASE t = 1                               -> 5
      [] t = 2                               -> 10
      [] t \in 3..4 \/ (t = 5 /\ e < 0)      -> 20
      [] t \in 5..9 \/ (t = 10 /\ e < 0)     -> 40
      [] t \in 10..19 \/ (t = 20 /\ e < 0)   -> 80
      [] t \in 20..39 \/ (t = 40 /\ e < 0)   -> 160
      [] t \in 40..79 \/ (t = 80 /\ e < 0)   -> 320
      [] OTHER                               -> 640

\* 2^n mod 5 for the n with t/10 = q * ulp + r: places t tenths between two
\* neighbouring doubles.
FloatGridResidue(t, u) ==
    LET p == CASE u = 5 -> 3 [] u = 10 -> 4 [] u = 20 -> 2
               [] u = 40 -> 1 [] u = 80 -> 3 [] u = 160 -> 4
               [] u = 320 -> 2 [] OTHER -> 1
    IN  (t * p) % 5

\* Of the two doubles around the real number t/10 + e units, rem above the
\* lower one, the nearer, and on a tie the one with the even mantissa.
FloatTies(t, e, u, r5, rem) ==
    LET c  == ((u \div 5) * r5 + e - rem) \div u
        up == 2 * rem > u \/ (2 * rem = u /\ (r5 + c) % 2 = 1)
    IN  [t |-> t, e |-> IF up THEN e + u - rem ELSE e - rem]

FloatSnap(t, e, u, r5) == FloatTies(t, e, u, r5, ((u \div 5) * r5 + e) % u)

\* The double nearest to the real number t/10 + e units.
FloatRound(t, e) ==
    IF t = 0 THEN [t |-> 0, e |-> e]
    ELSE FloatSnap(t, e, FloatUlp(t, e), FloatGridResidue(t, FloatUlp(t, e)))

\* The literal 0.k of the source text.
FloatLit(k) == FloatRound(k, 0)

\* a + b on floats.
FloatAdd(a, b) == FloatRound(a.t + b.t, a.e + b.e)

\* a < b on floats.
FloatLess(a, b) == a.t < b.t \/ (a.t = b.t /\ a.e < b.e)

(***************************************************************************)
(* SecurityResult and _combine_analysis_results.                           *)
(***************************************************************************)
SecurityResult(addr, hp, ver, risk, warns, t) ==
    [token_address |-> addr, is_honeypot |-> hp, is_verified |-> ver,
     risk_score |-> risk, warnings |-> warns, analysis_timestamp |-> t]

\* One `if` of the combination on the accumulator a: risk_score += weight
\* (in tenths; 0: no addition), is_honeypot = True where flags, and
\* warnings.extend(warns).
Triggered(a, cond, weight, flags, warns) ==
    IF cond
    THEN [risk |-> IF weight = 0 THEN a.risk ELSE FloatAdd(a.risk, FloatLit(weight)),
          hp   |-> a.hp \/ flags,
          w    |-> a.w \o warns]
    ELSE a

\* The accumulator after the honeypot-API block (lines 339-370).
CombineHoneypot(h) ==
    LET a0 == [risk |-> FloatLit(0), hp |-> FALSE, w |-> <<>>]
        a1 == Triggered(a0, h.has_hp /\ h.is_honeypot, 8, TRUE,
                        <<"Detected as honeypot by API">>)
        a2 == Triggered(a1, h.has_hp /\ h.buy_tax > 10, 2, FALSE, <<"High buy tax">>)
        a3 == Triggered(a2, h.has_hp /\ h.sell_tax > 10, 3, FALSE, <<"High sell tax">>)
        a4 == Triggered(a3, h.has_hp /\ h.sell_tax > 50, 0, TRUE,
                        <<"Extremely high sell tax - likely honeypot">>)
        a5 == Triggered(a4, h.has_ts /\ h.is_scam, 7, TRUE,
                        <<"Flagged as scam by TokenSniffer">>)
    IN  a5

\* The accumulator after the contract-code block (lines 373-396).
CombineCode(a, c) ==
    LET b0 == Triggered(a, TRUE, 0, FALSE, c.warnings)
        b1 == Triggered(b0, "transfer_restriction" \in c.risk_factors, 3, FALSE,
                        <<"Contract has transfer restrictions">>)
        b2 == Triggered(b1, "blacklist_functions" \in c.risk_factors, 4, FALSE,
                        <<"Contract can blacklist addresses">>)
        b3 == Triggered(b2, "pause_functions" \in c.risk_factors, 2, FALSE,
                        <<"Contract can be paused">>)
        b4 == Triggered(b3, "mint_functions" \in c.risk_factors, 1, FALSE,
                        <<"Contract can mint new tokens">>)
    IN  b4

\* The accumulator after the verification block (lines 399-405).
CombineVerification(a, v) ==
    Triggered(a, ~v.is_verified, 2, FALSE, <<"Contract is not verified">>)

\* The accumulator after the transaction block (lines 408-419).
CombineTransactions(a, x) ==
    LET d0 == Triggered(a, TRUE, 0, FALSE, x.warnings)
        d1 == Triggered(d0, x.failure_rate > 30, 3, FALSE, <<>>)
        d2 == Triggered(d1, x.bot_activity_score > 70, 2, FALSE, <<>>)
    IN  d2

\* risk_score = min(risk_score, 1.0)
CapRisk(r) == IF FloatLess(FloatLit(10), r) THEN FloatLit(10) ELSE r

\* ForceHoneypot with a strict threshold test.
ForceHoneypot_Strict(risk, hp) ==
    IF FloatLess(FloatLit(8), risk) THEN TRUE ELSE hp

\* if risk_score >= 0.8: is_honeypot = True
ForceHoneypot(risk, hp) ==
    IF ~FloatLess(risk, FloatLit(8)) THEN TRUE ELSE hp

\* The end of the combination (lines 421-435), on the accumulator d.
CombineFinish(addr, d, is_verified, t) ==
    SecurityResult(addr, ForceHoneypot(CapRisk(d.risk), d.hp), is_verified,
                   CapRisk(d.risk), d.w, t)

CombineAnalysisResults(addr, results, t) ==
    IF results.hp.has_hp /\ results.hp.tax_null
    THEN \* buy_tax > 10 on None raises TypeError: the except branch
         SecurityResult(addr, TRUE, FALSE, FloatLit(10),
                        <<"Analysis combination failed">>, t)
    ELSE CombineFinish(addr,
                       CombineTransactions(
                           CombineVerification(
                               CombineCode(CombineHoneypot(results.hp), results.code),
                               results.verif),
                           results.tx),
                       results.verif.is_verified, t)

BlacklistedResult(addr, t) ==
    SecurityResult(addr, TRUE, FALSE, FloatLit(10), <<"Token is blacklisted">>, t)

ErrorResult(addr, t) ==
    SecurityResult(addr, TRUE, FALSE, FloatLit(10), <<"Analysis failed">>, t)

(***************************************************************************)
(* analyze_contract.  Path is the branch the call takes.                   *)
(***************************************************************************)
\* CacheValid that still accepts an entry whose age equals the duration.
CacheValid_Inclusive(key, t) ==
    /\ key \in DOMAIN analysis_cache
    /\ t - analysis_cache[key].analysis_timestamp <= cache_duration

\* the cache test of analyze_contract
CacheValid(key, t) ==
    /\ key \in DOMAIN analysis_cache
    /\ t - analysis_cache[key].analysis_timestamp < cache_duration

Path(a) ==
    CASE ~IsStr(a)                                -> "error"
      [] CacheValid(Lower(a), now)                -> "cache"
      [] Lower(a) \in blacklisted_addresses       -> "blacklist"
      [] OTHER                                    -> "combined"

\* Placeholder in the observation of a call that returns no SecurityResult.
NoResult == SecurityResult(NoneAddr, FALSE, FALSE, FloatLit(0), <<>>, 0)

NoCall == [op |-> "none", addr |-> NoneAddr, path |-> "none", checks_run |-> 0,
           all_failed |-> FALSE, result |-> NoResult]

Observe(op, a, path, n, failed, r) ==
    [op |-> op, addr |-> a, path |-> path, checks_run |-> n,
     all_failed |-> failed, result |-> r]

AnalyzeContractBody(a, env) ==
    LET path == Path(a)
        key == Lower(a)
        r == CASE path = "error"     -> ErrorResult(a, now)
               [] path = "cache"     -> analysis_cache[key]
               [] path = "blacklist" -> BlacklistedResult(key, now)
               [] OTHER -> CombineAnalysisResults(key, RunChecks(env), now)
    IN  /\ analysis_cache' = IF path = "combined"
                             THEN DictPut(analysis_cache, key, r)
                             ELSE analysis_cache
        /\ last' = Observe("analyze", a, path,
                           IF path = "combined" THEN 5 ELSE 0,
                           path = "combined" /\ AllFailed(env), r)
        /\ prior' = IF IsStr(a)
                    THEN DictPut(prior, key, [result |-> r, at |-> now])
                    ELSE prior
        /\ UNCHANGED <<now, blacklisted_addresses, configVars, sniperVars, traderVars>>

\* analyze_contract, as one step
AnalyzeContract(a, env) == AnalyzeContractBody(a, env) /\ UNCHANGED utilVars

AddToBlacklist(a) ==
    /\ blacklisted_addresses' = blacklisted_addresses \cup {Lower(a)}
    /\ last' = Observe("add_to_blacklist", a, "none", 0, FALSE, NoResult)
    /\ UNCHANGED <<now, analysis_cache, prior, configVars, utilVars, sniperVars, traderVars>>

RemoveFromBlacklist(a) ==
    /\ blacklisted_addresses' = blacklisted_addresses \ {Lower(a)}
    /\ last' = Observe("remove_from_blacklist", a, "none", 0, FALSE, NoResult)
    /\ UNCHANGED <<now, analysis_cache, prior, configVars, utilVars, sniperVars, traderVars>>

\* ClearCache that empties the blacklist as well.
ClearCache_AlsoBlacklist ==
    /\ analysis_cache' = EmptyDict
    /\ blacklisted_addresses' = {}
    /\ prior' = EmptyDict
    /\ last' = Observe("clear_cache", NoneAddr, "none", 0, FALSE, NoResult)
    /\ UNCHANGED <<now, configVars, utilVars, sniperVars, traderVars>>

\* clear_cache
ClearCache ==
    /\ analysis_cache' = EmptyDict
    /\ prior' = EmptyDict
    /\ last' = Observe("clear_cache", NoneAddr, "none", 0, FALSE, NoResult)
    /\ UNCHANGED <<now, blacklisted_addresses, configVars, utilVars, sniperVars, traderVars>>

Tick ==
    /\ \E d \in TickSteps :
          /\ now + d <= MaxTicks * 1800
          /\ now' = now + d
    /\ UNCHANGED <<analyzerVars, configVars, utilVars, sniperVars, traderVars>>

\* ContractAnalyzer.__init__
AnalyzerInit ==
    /\ analysis_cache = EmptyDict
    /\ blacklisted_addresses = {}
    /\ last = NoCall
    /\ prior = EmptyDict

DoAnalyze == \E a \in RawAddrs : \E env \in EnvFor(a) : AnalyzeContract(a, env)
DoAddToBlacklist == \E a \in StrAddrs : AddToBlacklist(a)
DoRemoveFromBlacklist == \E a \in StrAddrs : RemoveFromBlacklist(a)

AnalyzerNext ==
    \/ DoAnalyze
    \/ DoAddToBlacklist
    \/ DoRemoveFromBlacklist
    \/ ClearCache
    \/ Tick

(***************************************************************************)
(* Trading configuration (core/config.py defaults).  Money is counted in   *)
(* cents, liquidity in thousandths of an ETH, risk and social scores in    *)
(* tenths, the composite score in ten-thousandths.                         *)
(***************************************************************************)
max_memecoin_investment_usd == 8
memecoin_profit_target == 20        \* 2.0, in tenths
memecoin_stop_loss == 7             \* 0.7, in tenths
min_liquidity_eth == 10             \* 0.01 ETH, in thousandths
min_holders == 50
purchase_cooldown == 30
SniperMaxHold == 86400              \* timedelta(hours=24)
OpportunityMaxAge == 3600           \* timedelta(hours=1)
min_score == 6000                   \* 0.6, in ten-thousandths
RiskLimit == 7                      \* risk_score > 0.7 blacklists
InvestmentLimit == max_memecoin_investment_usd * 10 * 100
InvestmentCents == max_memecoin_investment_usd * 100

(***************************************************************************)
(* MemecoinSniper: what the collaborators can hand to the strategy.        *)
(***************************************************************************)
SniperTokens == {"t1"}
OtherToken == "other"       \* any address outside SniperTokens, met for the first time
NoPrice == 0                \* the oracle returned None (or 0)

TokenInfo(kw, holders, liq) ==
    [has_keyword |-> kw, holders_count |-> holders, liquidity_eth |-> liq]
NoInfo == TokenInfo(FALSE, 0, 0)        \* get_token_info returned None
ScamInfo == TokenInfo(TRUE, 10, 5)
EdgeInfo == TokenInfo(FALSE, 50, 10)
MidInfo == TokenInfo(FALSE, 100, 1000)
GoodInfo == TokenInfo(TRUE, 600, 2000)

\* What analyze_contract can hand back: a risk of 0.8 or more comes with
\* the honeypot flag (ForceHoneypot, and the worst-case results).
Security(hp, risk) == [is_honeypot |-> hp, risk_score |-> risk]
EntryPrice == 100
SniperPrices == {NoPrice, 70, 71, 199, 200}

\* One launch as the strategy meets it: the receipt's status, the token
\* information, the analyzer's answer and the oracle's price.
Launch(receipt_ok, info, sec, price) ==
    [receipt_ok |-> receipt_ok, info |-> info, sec |-> sec, price |-> price]
Launches ==
    {Launch(FALSE, GoodInfo, Security(FALSE, 1), EntryPrice),
     Launch(TRUE, NoInfo, Security(FALSE, 1), EntryPrice),
     Launch(TRUE, ScamInfo, Security(TRUE, 10), EntryPrice),
     Launch(TRUE, GoodInfo, Security(TRUE, 3), EntryPrice),
     Launch(TRUE, GoodInfo, Security(FALSE, 7), EntryPrice),
     Launch(TRUE, ScamInfo, Security(FALSE, 1), EntryPrice),
     Launch(TRUE, EdgeInfo, Security(FALSE, 1), EntryPrice),
     Launch(TRUE, MidInfo, Security(FALSE, 1), EntryPrice),
     Launch(TRUE, GoodInfo, Security(FALSE, 1), NoPrice)}

\* _calculate_social_score, in tenths
CalculateSocialScore(info) ==
    Min((IF info.has_keyword THEN 3 ELSE 0)
        + (IF info.holders_count > 100 THEN 2 ELSE 0)
        + (IF info.holders_count > 500 THEN 2 ELSE 0)
        + (IF info.liquidity_eth > 100 THEN 2 ELSE 0)
        + (IF info.liquidity_eth > 1000 THEN 1 ELSE 0), 10)

MemecoinOpportunity(t, info, sec, at) ==
    [token_address |-> t, liquidity_eth |-> info.liquidity_eth,
     holders_count |-> info.holders_count,
     social_score |-> CalculateSocialScore(info),
     risk_score |-> sec.risk_score, detected_at |-> at]

\* combined_score of _should_snipe_token, in ten-thousandths
CombinedScore(opp) ==
    opp.social_score * 400
    + (10 - opp.risk_score) * 300
    + Min(opp.liquidity_eth, 1000) * 2
    + Min(opp.holders_count, 200) * 5

CooldownActive(t) ==
    /\ t \in DOMAIN sn_last_purchase_time
    /\ now - sn_last_purchase_time[t] < purchase_cooldown

\* Holding that counts active positions only
Holding_ActiveOnly(t) ==
    /\ t \in DOMAIN sn_positions
    /\ sn_positions[t].status = "active"
\* "if opportunity.token_address in self.positions"
Holding(t) == t \in DOMAIN sn_positions

\* LimitReached with a strict comparison
LimitReached_Above == sn_total_invested > InvestmentLimit
LimitReached == sn_total_invested >= InvestmentLimit

ScoreOk(opp) == CombinedScore(opp) >= min_score

\* _should_snipe_token
ShouldSnipeToken(opp) ==
    /\ ~CooldownActive(opp.token_address)
    /\ ~Holding(opp.token_address)
    /\ ~LimitReached
    /\ ScoreOk(opp)

\* _buy_token and _sell_token return a transaction hash, or None when their
\* body raises
BuyToken == swap_ok
SellToken == swap_ok

MemecoinPosition(t, price, at) ==
    [token_address |-> t, entry_price |-> price, entry_time |-> at,
     target_price |-> (price * trading.memecoin_profit_target) \div 100,
     stop_loss_price |-> (price * trading.memecoin_stop_loss) \div 100,
     investment_usd |-> InvestmentCents, status |-> "active"]

\* SnipeOpens without the test of the transaction hash.
SnipeOpens_IgnoreHash(price) == ~dry_run_mode /\ price # NoPrice

\* _execute_snipe reaches the bookkeeping of a new position
SnipeOpens(price) == ~dry_run_mode /\ price # NoPrice /\ BuyToken

\* the branch _analyze_new_token takes
\* Blacklists without the honeypot flag
Blacklists_RiskOnly(sec) == sec.risk_score > RiskLimit
Blacklists(sec) == sec.is_honeypot \/ sec.risk_score > RiskLimit
MeetsCriteria(info) ==
    /\ info.holders_count >= min_holders
    /\ info.liquidity_eth >= min_liquidity_eth

LaunchBranch(t, receipt_ok, info, sec) ==
    CASE ~receipt_ok                     -> "no_receipt"
      [] t \in sn_blacklisted_tokens     -> "known_bad"
      [] info = NoInfo                   -> "no_info"
      [] Blacklists(sec)                 -> "blacklist"
      [] ~MeetsCriteria(info)            -> "below_criteria"
      [] OTHER                           -> "opportunity"

(***************************************************************************)
(* MemecoinSniper actions.                                                 *)
(***************************************************************************)
\* the bookkeeping at the end of _execute_snipe
ExecuteSnipe(t, price) ==
    /\ sn_positions' = DictPut(sn_positions, t, MemecoinPosition(t, price, now))
    /\ sn_total_invested' = sn_total_invested + InvestmentCents
    /\ sn_last_purchase_time' = DictPut(sn_last_purchase_time, t, now)
    /\ UNCHANGED <<sn_other_positions, sn_total_profit, sn_successful_trades,
                   sn_failed_trades>>

\* _analyze_new_token for the launch of token t: the receipt, the token
\* information, the security result and the price are what the chain, the
\* analyzer and the oracle answer.
AnalyzeNewToken(t, l) ==
    LET branch == LaunchBranch(t, l.receipt_ok, l.info, l.sec)
        opp == MemecoinOpportunity(t, l.info, l.sec, now)
        price == l.price
    IN  /\ strategy = "sniper"
        /\ branch = "opportunity" => Len(sn_opportunities) < MaxOpportunities
        /\ sn_blacklisted_tokens' = IF branch = "blacklist"
                                    THEN sn_blacklisted_tokens \cup {t}
                                    ELSE sn_blacklisted_tokens
        /\ sn_opportunities' = IF branch = "opportunity"
                               THEN Append(sn_opportunities, opp)
                               ELSE sn_opportunities
        /\ IF branch = "opportunity" /\ ShouldSnipeToken(opp) /\ SnipeOpens(price)
           THEN ExecuteSnipe(t, price)
           ELSE UNCHANGED <<sn_positions, sn_other_positions, sniperTotals,
                            sn_last_purchase_time>>
        /\ UNCHANGED <<now, analyzerVars, configVars, utilVars, traderVars>>

\* _analyze_new_token for a token outside SniperTokens that is launched for
\* the first time and sniped: its position is only counted.
SnipeOtherToken(l) ==
    LET opp == MemecoinOpportunity(OtherToken, l.info, l.sec, now)
    IN  /\ strategy = "sniper"
        /\ LaunchBranch(OtherToken, l.receipt_ok, l.info, l.sec) = "opportunity"
        /\ ShouldSnipeToken(opp)
        /\ SnipeOpens(l.price)
        /\ sn_other_positions' = sn_other_positions + 1
        /\ sn_total_invested' = sn_total_invested + InvestmentCents
        /\ UNCHANGED <<sn_positions, sn_blacklisted_tokens, sn_opportunities,
                       sn_total_profit, sn_successful_trades, sn_failed_trades,
                       sn_last_purchase_time>>
        /\ UNCHANGED <<now, analyzerVars, configVars, utilVars, traderVars>>

\* ExitReason with the timeout tested first
ExitReason_TimeoutFirst(pos, p, hold) ==
    CASE now - pos.entry_time > hold          -> "timeout"
      [] p >= pos.target_price                -> "profit"
      [] p <= pos.stop_loss_price             -> "loss"
      [] OTHER                                -> "none"
\* the exit decision shared by _monitor_positions and _position_management_loop
ExitReason(pos, p, hold) ==
    CASE p >= pos.target_price                -> "profit"
      [] p <= pos.stop_loss_price             -> "loss"
      [] now - pos.entry_time > hold          -> "timeout"
      [] OTHER                                -> "none"

SoldStatus(reason) ==
    CASE reason = "profit"  -> "sold_profit"
      [] reason = "loss"    -> "sold_loss"
      [] reason = "timeout" -> "sold_timeout"
      [] reason = "signal"  -> "sold_signal"

\* profit_usd of _sell_position, cents
ProfitUsd(pos, p) == (pos.investment_usd * (p - pos.entry_price)) \div pos.entry_price

\* MemecoinSniper._sell_position
SniperSellPosition(t, reason, p) ==
    IF dry_run_mode \/ ~SellToken
    THEN UNCHANGED <<sn_positions, sniperTotals>>
    ELSE LET pos == sn_positions[t]
             profit == ProfitUsd(pos, p)
         IN  /\ sn_positions' = [sn_positions EXCEPT ![t].status = SoldStatus(reason)]
             /\ sn_total_profit' = sn_total_profit + profit
             /\ sn_successful_trades' =
                    sn_successful_trades + (IF profit > 0 THEN 1 ELSE 0)
             /\ sn_failed_trades' = sn_failed_trades + (IF profit > 0 THEN 0 ELSE 1)
             /\ UNCHANGED sn_total_invested

\* one pass of _monitor_positions over the position of token t
MonitorPositionBody(t, p) ==
    /\ strategy = "sniper"
    /\ t \in DOMAIN sn_positions
    /\ LET pos == sn_positions[t]
           reason == ExitReason(pos, p, SniperMaxHold)
       IN  IF pos.status = "active" /\ p # NoPrice /\ reason # "none"
           THEN SniperSellPosition(t, reason, p)
           ELSE UNCHANGED <<sn_positions, sniperTotals>>
    /\ UNCHANGED <<sn_other_positions, sn_blacklisted_tokens, sn_opportunities,
                   sn_last_purchase_time>>
    /\ UNCHANGED <<now, analyzerVars, configVars, traderVars>>

\* one pass of _monitor_positions, as one step
MonitorPosition(t, p) == MonitorPositionBody(t, p) /\ UNCHANGED utilVars

RECURSIVE Recent(_, _)
Recent(opps, cutoff) ==
    IF opps = <<>> THEN <<>>
    ELSE IF Head(opps).detected_at > cutoff
         THEN <<Head(opps)>> \o Recent(Tail(opps), cutoff)
         ELSE Recent(Tail(opps), cutoff)

\* one pass of _cleanup_old_opportunities
CleanupOldOpportunities ==
    /\ strategy = "sniper"
    /\ sn_opportunities' = Recent(sn_opportunities, now - OpportunityMaxAge)
    /\ UNCHANGED <<sn_positions, sn_other_positions, sn_blacklisted_tokens,
                   sniperTotals, sn_last_purchase_time>>
    /\ UNCHANGED <<now, analyzerVars, configVars, utilVars, traderVars>>

\* MemecoinSniper.__init__
SniperInit ==
    /\ sn_positions = EmptyDict
    /\ sn_other_positions = 0
    /\ sn_blacklisted_tokens = {}
    /\ sn_opportunities = <<>>
    /\ sn_total_invested = 0
    /\ sn_total_profit = 0
    /\ sn_successful_trades = 0
    /\ sn_failed_trades = 0
    /\ sn_last_purchase_time = EmptyDict

(***************************************************************************)
(* AltcoinTrader.                                                          *)
(***************************************************************************)
altcoin_max_investment_usd == 100
altcoin_profit_target == 15         \* 1.5, in tenths
altcoin_stop_loss == 85             \* 0.85, in hundredths
StartingBalance == 100000           \* 1000.0 USD, in cents
max_position_size_percent == 20     \* 0.2
MinimumInvestment == 1000           \* 10 USD, in cents
TraderMaxHold == 604800             \* timedelta(days=7)
MinStrength == 7                    \* signal.strength >= 0.7

TraderTokens == {"WETH"}            \* one of self.supported_tokens
SignalPrices == {100}               \* last price of the history
TraderPrices == {NoPrice, 85, 86, 149, 150}

\* what calculate_indicators returns ({} when it fails: every default)
Indicators(rsi, macd, ma, bb) ==
    [rsi |-> rsi, macd_signal |-> macd, ma_signal |-> ma, bb_signal |-> bb,
     volume_signal |-> 0]
IndicatorSets ==
    {Indicators(50, 0, 0, 0),       \* every default: hold
     Indicators(20, 1, 1, 0),       \* buy, 0.7
     Indicators(20, 1, 1, 1),       \* buy, 0.9
     Indicators(50, 1, 1, 1),       \* buy, 0.6
     Indicators(20, -1, -1, 0),     \* oversold against two bearish votes: buy, 0.7
     Indicators(80, -1, -1, 0),     \* sell, 0.7
     Indicators(50, -1, -1, -1)}    \* sell, 0.6

\* Vote in which the latest non-neutral indicator always takes the direction.
Vote_LastWins(sig, s) ==
    CASE s.v > 0 -> [type |-> "buy", strength |-> sig.strength + s.w]
      [] s.v < 0 -> [type |-> "sell", strength |-> sig.strength + s.w]
      [] OTHER   -> sig

\* Vote in which an indicator that opposes the direction adds no weight.
Vote_AgreeOnly(sig, s) ==
    CASE s.v > 0 /\ sig.type # "sell" ->
             [type |-> "buy", strength |-> sig.strength + s.w]
      [] s.v < 0 /\ sig.type # "buy" ->
             [type |-> "sell", strength |-> sig.strength + s.w]
      [] OTHER -> sig

\* one indicator's vote in _generate_trading_signal
Vote(sig, s) ==
    CASE s.v > 0 -> [type |-> IF sig.type # "sell" THEN "buy" ELSE sig.type,
                     strength |-> sig.strength + s.w]
      [] s.v < 0 -> [type |-> IF sig.type # "buy" THEN "sell" ELSE sig.type,
                     strength |-> sig.strength + s.w]
      [] OTHER   -> sig

\* _generate_trading_signal: type and strength (tenths) of the signal
GenerateTradingSignal(ind) ==
    LET s0 == CASE ind.rsi < 30 -> [type |-> "buy", strength |-> 3]
                [] ind.rsi > 70 -> [type |-> "sell", strength |-> 3]
                [] OTHER        -> [type |-> "hold", strength |-> 0]
        s1 == Vote(s0, [v |-> ind.macd_signal, w |-> 2])
        s2 == Vote(s1, [v |-> ind.ma_signal, w |-> 2])
        s3 == Vote(s2, [v |-> ind.bb_signal, w |-> 2])
        s4 == IF ind.volume_signal > 0
              THEN [s3 EXCEPT !.strength = @ + 1] ELSE s3
    IN  [type |-> s4.type, strength |-> Min(s4.strength, 10)]

\* Every indicators dict the combination can be handed: RSI on both sides of
\* its two thresholds, each directional signal bearish, neutral or bullish,
\* the volume signal absent or positive.  The empty dict that
\* calculate_indicators returns on an error reads as rsi 50 and zeros.
IndicatorDomain ==
    [rsi : {29, 30, 50, 70, 71}, macd_signal : {-1, 0, 1}, ma_signal : {-1, 0, 1},
     bb_signal : {-1, 0, 1}, volume_signal : {0, 1}]

NoSignal == [type |-> "none", strength |-> 0]

\* no call of the signal combination is being observed
SignalIdle == sig_indicators = Indicators(50, 0, 0, 0) /\ sig_signal = NoSignal

\* one call of _generate_trading_signal on the indicators of the state
GenerateSignalCall ==
    /\ sig_signal = NoSignal
    /\ sig_signal' = GenerateTradingSignal(sig_indicators)
    /\ UNCHANGED <<now, sig_indicators, priceVars, lifecycleVars, analyzerVars, extraVars,
                   configVars, sniperVars, traderVars>>

\* _buy_altcoin and _sell_altcoin return a transaction hash, or None when
\* their body raises
BuyAltcoin == swap_ok
SellAltcoin == swap_ok

AltcoinPosition(t, price, invest, at) ==
    [token_address |-> t, entry_price |-> price, entry_time |-> at,
     target_price |-> (price * trading.altcoin_profit_target) \div 100,
     stop_loss_price |-> (price * trading.altcoin_stop_loss) \div 100,
     investment_usd |-> invest, status |-> "active"]

\* HasActive with the status test inverted
HasActive_Closed(t) ==
    /\ t \in DOMAIN at_positions
    /\ at_heap[at_positions[t]].status # "active"
\* the position object self.positions holds for token t is active
HasActive(t) ==
    /\ t \in DOMAIN at_positions
    /\ at_heap[at_positions[t]].status = "active"

\* InvestmentAmount without the configured maximum
InvestmentAmount_NoMaximum ==
    (at_available_balance_usd * max_position_size_percent) \div 100
\* investment_amount of _execute_buy_signal
InvestmentAmount ==
    Min((at_available_balance_usd * max_position_size_percent) \div 100,
        at_max_investment)

\* _execute_buy_signal opens a position
BuyOpens(t) ==
    /\ ~HasActive(t)
    /\ InvestmentAmount >= MinimumInvestment
    /\ ~dry_run_mode
    /\ BuyAltcoin

\* _execute_buy_signal
ExecuteBuySignal(t, price) ==
    IF BuyOpens(t)
    THEN /\ Len(at_heap) < MaxHeap
         /\ at_heap' = Append(at_heap, AltcoinPosition(t, price, InvestmentAmount, now))
         /\ at_positions' = DictPut(at_positions, t, Len(at_heap) + 1)
         /\ at_available_balance_usd' = at_available_balance_usd - InvestmentAmount
         /\ at_total_trades' = at_total_trades + 1
         /\ UNCHANGED <<at_profitable_trades, at_total_profit_usd>>
    ELSE UNCHANGED <<at_heap, at_positions, traderTotals>>

\* AltcoinTrader._sell_position, on the position object number i
TraderSellPosition(i, reason, p) ==
    IF dry_run_mode \/ ~SellAltcoin
    THEN UNCHANGED <<at_heap, traderTotals>>
    ELSE LET pos == at_heap[i]
             profit == ProfitUsd(pos, p)
         IN  /\ at_heap' = [at_heap EXCEPT ![i].status = SoldStatus(reason)]
             /\ at_available_balance_usd' =
                    at_available_balance_usd + pos.investment_usd + profit
             /\ at_total_profit_usd' = at_total_profit_usd + profit
             /\ at_profitable_trades' =
                    at_profitable_trades + (IF profit > 0 THEN 1 ELSE 0)
             /\ UNCHANGED at_total_trades

\* _execute_sell_signal
ExecuteSellSignal(t, price) ==
    IF HasActive(t)
    THEN TraderSellPosition(at_positions[t], "signal", price) /\ UNCHANGED at_positions
    ELSE UNCHANGED <<at_heap, at_positions, traderTotals>>

\* one token's turn in _signal_generation_loop, from the generation of the
\* signal on
SignalStepBody(t, ind, price) ==
    LET signal == GenerateTradingSignal(ind)
    IN  /\ strategy = "trader"
        /\ IF signal.strength >= MinStrength /\ signal.type = "buy"
           THEN ExecuteBuySignal(t, price)
           ELSE IF signal.strength >= MinStrength /\ signal.type = "sell"
           THEN ExecuteSellSignal(t, price)
           ELSE UNCHANGED <<at_heap, at_positions, traderTotals>>
        /\ UNCHANGED <<now, analyzerVars, configVars, sniperVars, at_pm>>

\* the same for a token whose price history is long enough, as one step
SignalStep(t, ind, price) == SignalStepBody(t, ind, price) /\ UNCHANGED utilVars

PmIdle == [phase |-> "idle", pos |-> 0]

\* _position_management_loop, up to the await on the price oracle: the loop
\* has found the position object of token t active and asks for its price
ManagePosition(t) ==
    /\ strategy = "trader"
    /\ at_pm.phase = "idle"
    /\ HasActive(t)
    /\ at_pm' = [phase |-> "await_price", pos |-> at_positions[t]]
    /\ UNCHANGED <<now, analyzerVars, configVars, utilVars, sniperVars, at_heap,
                   at_positions, traderTotals>>

\* _position_management_loop, from the oracle's answer on
ManagePositionResume(p) ==
    /\ strategy = "trader"
    /\ at_pm.phase = "await_price"
    /\ LET reason == ExitReason(at_heap[at_pm.pos], p, TraderMaxHold)
       IN  IF p # NoPrice /\ reason # "none"
           THEN TraderSellPosition(at_pm.pos, reason, p)
           ELSE UNCHANGED <<at_heap, traderTotals>>
    /\ at_pm' = PmIdle
    /\ UNCHANGED <<now, analyzerVars, configVars, utilVars, sniperVars, at_positions>>

\* AltcoinTrader.__init__
TraderInit ==
    /\ at_heap = <<>>
    /\ at_positions = EmptyDict
    /\ at_available_balance_usd = StartingBalance
    /\ at_total_trades = 0
    /\ at_profitable_trades = 0
    /\ at_total_profit_usd = 0
    /\ at_pm = PmIdle

(***************************************************************************)
(* The clock of the strategies, and the specifications.                    *)
(***************************************************************************)
(***************************************************************************)
(* start() and stop() of a strategy, and the tasks start() creates.  A     *)
(* loop task is "while self.is_running: <one pass>; await sleep": it       *)
(* stands at the test of the flag ("check"), inside a pass ("pass") or in  *)
(* the sleep after it ("sleep"), and is "done" once the test has failed.   *)
(* The sniper's first task awaits Web3Client.monitor_mempool, which        *)
(* iterates over the websocket's messages ("listening").                   *)
(***************************************************************************)
MempoolTask == "_monitor_mempool"
LoopTasks ==
    IF strategy = "sniper"
    THEN {"_monitor_positions", "_social_sentiment_monitor", "_cleanup_old_opportunities"}
    ELSE {"_price_monitoring_loop", "_signal_generation_loop",
          "_position_management_loop", "_portfolio_rebalancing_loop",
          "_performance_tracking_loop"}
CreatedTasks == LoopTasks \cup (IF strategy = "sniper" THEN {MempoolTask} ELSE {})

\* __init__: is_running = False, no task created
LifecycleInit ==
    /\ is_running = FALSE
    /\ start_call = "none"
    /\ task_pc = EmptyDict
    /\ ws_pending = FALSE
    /\ stop_requested = FALSE

\* start(), up to its await of asyncio.gather
Start ==
    /\ start_call = "none"
    /\ ~is_running
    /\ is_running' = TRUE
    /\ task_pc' = [k \in CreatedTasks |-> IF k = MempoolTask THEN "listening" ELSE "check"]
    /\ start_call' = "gathering"
    /\ UNCHANGED <<ws_pending, stop_requested>>
    /\ UNCHANGED <<now, signalVars, priceVars, analyzerVars, extraVars, configVars,
                   sniperVars, traderVars>>

\* stop(), called on the running strategy
Stop ==
    /\ start_call = "gathering"
    /\ is_running
    /\ is_running' = FALSE
    /\ stop_requested' = TRUE
    /\ UNCHANGED <<start_call, task_pc, ws_pending>>
    /\ UNCHANGED <<now, signalVars, priceVars, analyzerVars, extraVars, configVars,
                   sniperVars, traderVars>>

\* LoopStep with the try statement around the while loop: an exception
\* ends the loop.
LoopStep_ExceptionEnds(k) ==
    /\ k \in DOMAIN task_pc
    /\ k \in LoopTasks
    /\ task_pc[k] # "done"
    /\ \E raised \in BOOLEAN :
          task_pc' = [task_pc EXCEPT ![k] =
                         CASE @ = "check"  -> IF is_running THEN "pass" ELSE "done"
                           [] @ = "pass"   -> IF raised THEN "except" ELSE "sleep"
                           [] @ = "except" -> "done"
                           [] @ = "sleep"  -> "check"]
    /\ UNCHANGED <<is_running, start_call, ws_pending, stop_requested>>
    /\ UNCHANGED <<now, signalVars, priceVars, analyzerVars, extraVars, configVars,
                   sniperVars, traderVars>>

\* one step of a loop task: the test of the flag ("check"), the pass, which
\* completes or raises, the sleep after a completed pass ("sleep"), and the
\* except branch with its own sleep ("except")
LoopStep(k) ==
    /\ k \in DOMAIN task_pc
    /\ k \in LoopTasks
    /\ task_pc[k] # "done"
    /\ \E raised \in BOOLEAN :
          task_pc' = [task_pc EXCEPT ![k] =
                         CASE @ = "check"  -> IF is_running THEN "pass" ELSE "done"
                           [] @ = "pass"   -> IF raised THEN "except" ELSE "sleep"
                           [] @ = "except" -> "check"
                           [] @ = "sleep"  -> "check"]
    /\ UNCHANGED <<is_running, start_call, ws_pending, stop_requested>>
    /\ UNCHANGED <<now, signalVars, priceVars, analyzerVars, extraVars, configVars,
                   sniperVars, traderVars>>

Listening == MempoolTask \in DOMAIN task_pc /\ task_pc[MempoolTask] = "listening"

\* the node sends a pending transaction over the websocket
MempoolArrive ==
    /\ Listening
    /\ ~ws_pending
    /\ ws_pending' = TRUE
    /\ UNCHANGED <<is_running, start_call, task_pc, stop_requested>>
    /\ UNCHANGED <<now, signalVars, priceVars, analyzerVars, extraVars, configVars,
                   sniperVars, traderVars>>

\* monitor_mempool takes the message and awaits callback(tx), which returns
\* at once when is_running is false; the iteration goes on in either case
MempoolDeliver ==
    /\ Listening
    /\ ws_pending
    /\ ws_pending' = FALSE
    /\ UNCHANGED <<is_running, start_call, task_pc, stop_requested>>
    /\ UNCHANGED <<now, signalVars, priceVars, analyzerVars, extraVars, configVars,
                   sniperVars, traderVars>>

\* the connection ends: closed normally (the iteration ends and the task
\* returns), or with an error that monitor_mempool raises again, which
\* gather passes on to start()
MempoolEnds ==
    /\ Listening
    /\ \E clean \in BOOLEAN :
          IF clean
          THEN /\ task_pc' = [task_pc EXCEPT ![MempoolTask] = "done"]
               /\ UNCHANGED <<is_running, start_call>>
          ELSE /\ task_pc' = [task_pc EXCEPT ![MempoolTask] = "raised"]
               /\ start_call = "gathering"
               /\ start_call' = "raised"
               /\ is_running' = FALSE
    /\ UNCHANGED <<ws_pending, stop_requested>>
    /\ UNCHANGED <<now, signalVars, priceVars, analyzerVars, extraVars, configVars,
                   sniperVars, traderVars>>

\* asyncio.gather returns once every task has returned
GatherReturns ==
    /\ start_call = "gathering"
    /\ \A k \in DOMAIN task_pc : task_pc[k] = "done"
    /\ start_call' = "returned"
    /\ UNCHANGED <<is_running, task_pc, ws_pending, stop_requested>>
    /\ UNCHANGED <<now, signalVars, priceVars, analyzerVars, extraVars, configVars,
                   sniperVars, traderVars>>

DoLoopStep == \E k \in LoopTasks : LoopStep(k)

LifecycleNext ==
    \/ Start
    \/ Stop
    \/ DoLoopStep
    \/ MempoolArrive
    \/ MempoolDeliver
    \/ MempoolEnds
    \/ GatherReturns

\* The event loop runs every task that can run, a sleep ends, and the node
\* keeps sending pending transactions.  Nothing obliges the caller to stop
\* the strategy or the connection to end.
LifecycleFairness ==
    /\ WF_vars(Start)
    /\ \A k \in {"_monitor_positions", "_social_sentiment_monitor",
                 "_cleanup_old_opportunities", "_price_monitoring_loop",
                 "_signal_generation_loop", "_position_management_loop",
                 "_portfolio_rebalancing_loop", "_performance_tracking_loop"} :
          WF_vars(LoopStep(k))
    /\ WF_vars(MempoolArrive)
    /\ WF_vars(MempoolDeliver)
    /\ WF_vars(GatherReturns)

(***************************************************************************)
(* load_config (core/config.py): the trading multipliers are read from the *)
(* environment with float(os.getenv(NAME, default)).  A multiplier is kept *)
(* in hundredths.                                                          *)
(***************************************************************************)
Unset == "<unset>"
ParseError == -1

\* float(s) for the strings explored; a string that is no number raises
ParseFloat(s) ==
    CASE s = "0.5" -> 50
      [] s = "1.0" -> 100
      [] s = "2.0" -> 200
      [] OTHER     -> ParseError

\* float(os.getenv(NAME, default))
GetEnvFloat(value, default) == IF value = Unset THEN default ELSE ParseFloat(value)

\* TradingConfig with every variable unset
DefaultTrading ==
    [memecoin_profit_target |-> memecoin_profit_target * 10,
     memecoin_stop_loss |-> memecoin_stop_loss * 10,
     altcoin_profit_target |-> altcoin_profit_target * 10,
     altcoin_stop_loss |-> altcoin_stop_loss]

Environ(required, mpt, msl, apt, asl) ==
    [required_present |-> required, MEMECOIN_PROFIT_TARGET |-> mpt,
     MEMECOIN_STOP_LOSS |-> msl, ALTCOIN_PROFIT_TARGET |-> apt,
     ALTCOIN_STOP_LOSS |-> asl]

\* The environments explored: the defaults, one multiplier set at a time,
\* a value that is no number, and a required variable missing.
Environs ==
    { Environ(TRUE, Unset, Unset, Unset, Unset),
      Environ(TRUE, "0.5", Unset, Unset, Unset),
      Environ(TRUE, Unset, "1.0", Unset, Unset),
      Environ(TRUE, Unset, Unset, "1.0", Unset),
      Environ(TRUE, Unset, Unset, Unset, "2.0"),
      Environ(TRUE, "2.0", "0.5", "2.0", "0.5"),
      Environ(TRUE, "abc", Unset, Unset, Unset),
      Environ(FALSE, Unset, Unset, Unset, Unset) }

\* config.trading as load_config builds it
LoadTrading(env) ==
    [memecoin_profit_target |->
         GetEnvFloat(env.MEMECOIN_PROFIT_TARGET, DefaultTrading.memecoin_profit_target),
     memecoin_stop_loss |->
         GetEnvFloat(env.MEMECOIN_STOP_LOSS, DefaultTrading.memecoin_stop_loss),
     altcoin_profit_target |->
         GetEnvFloat(env.ALTCOIN_PROFIT_TARGET, DefaultTrading.altcoin_profit_target),
     altcoin_stop_loss |->
         GetEnvFloat(env.ALTCOIN_STOP_LOSS, DefaultTrading.altcoin_stop_loss)]

\* load_config returns: no required variable is missing and no float() raises
LoadConfigAccepts(env) ==
    /\ env.required_present
    /\ \A k \in DOMAIN LoadTrading(env) : LoadTrading(env)[k] # ParseError

(***************************************************************************)
(* PriceCalculator.get_token_price_eth (utils/price_calculator.py).        *)
(* Prices are whole numbers of a small unit; a DEX router either answers   *)
(* with a price (possibly 0) or its query fails.                           *)
(***************************************************************************)
price_cache_duration == 30

Dex(ok, price) == [ok |-> ok, price |-> price]
DexDown == Dex(FALSE, 0)
DexAnswers == {DexDown, Dex(TRUE, 0), Dex(TRUE, 98), Dex(TRUE, 100), Dex(TRUE, 102)}
\* the answers of uniswap_v3, baseswap and camelot, in the order of dex_routers
DexRouterAnswers == [1..3 -> DexAnswers]

PriceTokens == {"t1", "WETH"}
\* cache_key = f"{token_address}_ETH"
PriceKey(t) == <<t, "ETH">>

\* the prices list after the loop over the routers: if price and price > 0
RECURSIVE CollectPrices(_)
CollectPrices(answers) ==
    IF answers = <<>> THEN <<>>
    ELSE LET a == Head(answers)
         IN  (IF a.ok /\ a.price > 0 THEN <<a.price>> ELSE <<>>)
             \o CollectPrices(Tail(answers))

\* list.sort()
RECURSIVE InsertSorted(_, _)
InsertSorted(x, s) ==
    IF s = <<>> THEN <<x>>
    ELSE IF x <= Head(s) THEN <<x>> \o s
    ELSE <<Head(s)>> \o InsertSorted(x, Tail(s))
RECURSIVE SortPrices(_)
SortPrices(s) == IF s = <<>> THEN <<>> ELSE InsertSorted(Head(s), SortPrices(Tail(s)))

\* prices[len(prices) // 2] of a zero-indexed list
MedianPrice(prices) == SortPrices(prices)[(Len(prices) \div 2) + 1]

PriceCacheValid(t) ==
    /\ PriceKey(t) \in DOMAIN price_cache
    /\ now - price_cache[PriceKey(t)].timestamp < price_cache_duration

GetTokenPriceEth(t, answers) ==
    LET prices == CollectPrices(answers)
    IN  /\ IF PriceCacheValid(t)
           THEN px_returned' = price_cache[PriceKey(t)].price /\ UNCHANGED price_cache
           ELSE IF prices # <<>>
           THEN /\ price_cache' = DictPut(price_cache, PriceKey(t),
                                          [price |-> MedianPrice(prices), timestamp |-> now])
                /\ px_returned' = MedianPrice(prices)
           ELSE px_returned' = NoPrice /\ UNCHANGED price_cache
        /\ UNCHANGED <<now, signalVars, lifecycleVars, analyzerVars, extraVars, configVars,
                       sniperVars, traderVars>>

DoGetTokenPriceEth ==
    \E t \in PriceTokens : \E answers \in DexRouterAnswers : GetTokenPriceEth(t, answers)

\* time passes: just less than a cache period, or a whole one
PriceTick ==
    /\ \E d \in {price_cache_duration - 1, price_cache_duration} :
          /\ now + d <= MaxPriceTicks * price_cache_duration
          /\ now' = now + d
    /\ UNCHANGED <<utilVars, analyzerVars, configVars, sniperVars, traderVars>>

\* PriceCalculator.__init__
PriceInit == price_cache = EmptyDict /\ px_returned = NoPrice

PriceNext == DoGetTokenPriceEth \/ PriceTick

MaxHold == IF strategy = "sniper" THEN SniperMaxHold ELSE TraderMaxHold

\* time passes by a second or by a whole holding period; the clock is
\* explored up to MaxSlack seconds past the start and past the period
StrategyTick ==
    /\ \E d \in {1, MaxHold} :
          /\ (now + d) % MaxHold <= MaxSlack
          /\ now + d <= MaxHold + MaxSlack
          /\ now' = now + d
    /\ UNCHANGED <<analyzerVars, configVars, utilVars, sniperVars, traderVars>>

DoAnalyzeNewToken == \E t \in SniperTokens, l \in Launches : AnalyzeNewToken(t, l)
DoSnipeOtherToken == \E l \in Launches : SnipeOtherToken(l)
DoMonitorPosition ==
    \E t \in SniperTokens, p \in SniperPrices : MonitorPosition(t, p)
DoSignalStep ==
    \E t \in TraderTokens, ind \in IndicatorSets, price \in SignalPrices :
        SignalStep(t, ind, price)
DoManagePosition == \E t \in TraderTokens : ManagePosition(t)
DoManagePositionResume == \E p \in TraderPrices : ManagePositionResume(p)

StrategiesNext ==
    \/ DoAnalyzeNewToken
    \/ DoSnipeOtherToken
    \/ DoMonitorPosition
    \/ CleanupOldOpportunities
    \/ DoSignalStep
    \/ DoManagePosition
    \/ DoManagePositionResume
    \/ StrategyTick

(***************************************************************************)
(* _combine_analysis_results as a function of the outputs of the checks.   *)
(***************************************************************************)
\* What honeypot.is and TokenSniffer can answer, on each side of each
\* threshold of the combination.
CombineHpAnswers ==
    { e \in [hp_ok : BOOLEAN, is_honeypot : BOOLEAN, buy_tax : {10, 11},
             sell_tax : {10, 11, 51}, tax_null : BOOLEAN, ts_ok : BOOLEAN,
             is_scam : BOOLEAN] :
        /\ ~e.hp_ok => (~e.is_honeypot /\ e.buy_tax = 10 /\ e.sell_tax = 10
                        /\ ~e.tax_null)
        /\ e.tax_null => (e.buy_tax = 10 /\ e.sell_tax = 10)
        /\ ~e.ts_ok => ~e.is_scam }

\* The bytecodes: every set of the pattern groups that carry a weight.
CombineCodeAnswers ==
    {CodeDown} \cup
    { [ok |-> TRUE, patterns |-> ps, small |-> FALSE] :
        ps \in SUBSET {"transfer_restriction", "blacklist_functions",
                       "pause_functions", "mint_functions"} }

CombineVerifAnswers == {VerifDown, VerifNo, VerifYes}

CombineTxAnswers ==
    {TxDown} \cup
    { [outcome |-> "ok", failure_rate |-> f, bot_activity_score |-> b] :
        f \in {30, 31}, b \in {70, 71} }

\* results of asyncio.gather: the five dicts the checks return
CombineDomain ==
    { RunChecks(Env(h, c, v, x)) :
        h \in CombineHpAnswers, c \in CombineCodeAnswers,
        v \in CombineVerifAnswers, x \in CombineTxAnswers }

CombineToken == <<"a", "b">>

CombineIdle == comb_results = RunChecks(Env(HpDown, CodeDown, VerifDown, TxDown))
               /\ comb_out = NoResult

\* await self._combine_analysis_results(token_address, results)
CombineCall ==
    /\ comb_out = NoResult
    /\ comb_out' = CombineAnalysisResults(CombineToken, comb_results, now)
    /\ UNCHANGED <<now, comb_results, gatherVars, bootVars, sn_monitor_pc, lateVars, signalVars, priceVars,
                   lifecycleVars, analyzerVars, configVars, sniperVars, traderVars>>

(***************************************************************************)
(* analyze_contract with its checks as five tasks of one asyncio.gather.   *)
(***************************************************************************)
Checks == {"honeypot", "code", "verification", "transactions", "liquidity"}

\* How the task of check k ends under the answers env: "failed" when its
\* requests raise (the check logs and returns its failure dict).
CheckOutcome(k, env) ==
    CASE k = "honeypot"     -> IF HoneypotFailed(env.hp) THEN "failed" ELSE "returned"
      [] k = "code"         -> IF env.code.ok THEN "returned" ELSE "failed"
      [] k = "verification" -> IF env.verif.outcome = "failed" THEN "failed" ELSE "returned"
      [] k = "transactions" -> IF env.tx.outcome = "failed" THEN "failed" ELSE "returned"
      [] OTHER              -> "returned"

GatherIdle ==
    /\ ga_call = [phase |-> "idle", addr |-> NoneAddr,
                  env |-> Env(HpDown, CodeDown, VerifDown, TxDown)]
    /\ ga_tasks = [k \in Checks |-> "returned"]

\* tasks = [...]; asyncio.gather(*tasks, return_exceptions=True) is entered
GatherStart(a, env) ==
    /\ ga_call.phase # "gathering"
    /\ Path(a) = "combined"
    /\ ga_call' = [phase |-> "gathering", addr |-> a, env |-> env]
    /\ ga_tasks' = [k \in Checks |-> "pending"]
    /\ UNCHANGED <<now, analyzerVars, configVars, combineVars, bootVars, sn_monitor_pc, lateVars, signalVars,
                   priceVars, lifecycleVars, sniperVars, traderVars>>

\* the task of check k runs to its end
CheckStep(k) ==
    /\ ga_call.phase = "gathering"
    /\ ga_tasks[k] = "pending"
    /\ ga_tasks' = [ga_tasks EXCEPT ![k] = CheckOutcome(k, ga_call.env)]
    /\ UNCHANGED <<now, ga_call, analyzerVars, configVars, combineVars, bootVars, sn_monitor_pc, lateVars,
                   signalVars, priceVars, lifecycleVars, sniperVars, traderVars>>

\* gather with return_exceptions=False: the first exception ends the wait.
GatherDone_FirstException ==
    \/ \A k \in Checks : ga_tasks[k] # "pending"
    \/ \E k \in Checks : ga_tasks[k] = "failed"

\* the future of asyncio.gather(..., return_exceptions=True) is done
GatherDone == \A k \in Checks : ga_tasks[k] # "pending"

\* gather returns; the results are combined, cached and returned
GatherReturn ==
    /\ ga_call.phase = "gathering"
    /\ GatherDone
    /\ AnalyzeContractBody(ga_call.addr, ga_call.env)
    /\ ga_call' = [ga_call EXCEPT !.phase = "returned"]
    /\ UNCHANGED <<ga_tasks, combineVars, bootVars, sn_monitor_pc, lateVars, signalVars, priceVars,
                   lifecycleVars>>

\* analyze_contract on the paths that run no check
AnalyzeWithoutChecks ==
    /\ ga_call.phase # "gathering"
    /\ \E a \in RawAddrs : \E env \in EnvFor(a) :
          Path(a) # "combined" /\ AnalyzeContract(a, env)

GatherBlacklist == ga_call.phase # "gathering" /\ DoAddToBlacklist

DoGatherStart == \E a \in StrAddrs : \E env \in EnvFor(a) : GatherStart(a, env)
DoCheckStep == \E k \in Checks : CheckStep(k)

GatherNext ==
    \/ DoGatherStart
    \/ DoCheckStep
    \/ GatherReturn
    \/ AnalyzeWithoutChecks
    \/ GatherBlacklist

(***************************************************************************)
(* main(): load_config, CryptoSniperBot.initialize and start, sys.exit.    *)
(***************************************************************************)
RequiredVars ==
    {"BASE_RPC_URL", "BASE_WEBSOCKET_URL", "PRIVATE_KEY", "WALLET_ADDRESS",
     "TELEGRAM_BOT_TOKEN", "TELEGRAM_CHAT_ID", "BASESCAN_API_KEY"}

\* A required variable is unset, set to the empty string, or set.
BootEnvs == [RequiredVars -> {Unset, "", "x"}]

\* MissingVars that looks for unset variables only.
MissingVars_UnsetOnly(e) == {v \in RequiredVars : e[v] = Unset}

\* missing_vars = [var for var in required_vars if not os.getenv(var)]
MissingVars(e) == {v \in RequiredVars : e[v] = Unset \/ e[v] = ""}

\* load_config() raises under the environment e (the optional variables unset)
LoadConfigRaises(e) ==
    ~LoadConfigAccepts(Environ(MissingVars(e) = {}, Unset, Unset, Unset, Unset))

Strategies == {"sniper", "trader"}

BootIdle ==
    /\ boot_env = [v \in RequiredVars |-> "x"]
    /\ boot = [pc |-> "none", started |-> {}]

\* bot = CryptoSniperBot(); await bot.initialize()
BootInitialize ==
    /\ boot.pc = "main"
    /\ boot' = IF LoadConfigRaises(boot_env)
               THEN [boot EXCEPT !.pc = "fatal"]
               ELSE [pc |-> "initialized", started |-> {"chain"}]
    /\ UNCHANGED <<now, boot_env, analyzerVars, configVars, combineVars, gatherVars, sn_monitor_pc, lateVars,
                   signalVars, priceVars, lifecycleVars, sniperVars, traderVars>>

\* await bot.start(): the Telegram bot starts polling, or raises and the
\* bot stops its components
BootStart(ok) ==
    /\ boot.pc = "initialized"
    /\ boot' = IF ok
               THEN [pc |-> "running", started |-> boot.started \cup {"telegram"}]
               ELSE [pc |-> "fatal", started |-> {}]
    /\ UNCHANGED <<now, boot_env, analyzerVars, configVars, combineVars, gatherVars, sn_monitor_pc, lateVars,
                   signalVars, priceVars, lifecycleVars, sniperVars, traderVars>>

\* a button of the Telegram bot: asyncio.create_task(strategy.start())
BootCommand(st) ==
    /\ boot.pc = "running"
    /\ "telegram" \in boot.started
    /\ boot' = [boot EXCEPT !.started = @ \cup {st}]
    /\ UNCHANGED <<now, boot_env, analyzerVars, configVars, combineVars, gatherVars, sn_monitor_pc, lateVars,
                   signalVars, priceVars, lifecycleVars, sniperVars, traderVars>>

\* SIGINT / SIGTERM: bot.stop(), start() returns, main() returns
BootSignal ==
    /\ boot.pc = "running"
    /\ boot' = [pc |-> "exited_0", started |-> {}]
    /\ UNCHANGED <<now, boot_env, analyzerVars, configVars, combineVars, gatherVars, sn_monitor_pc, lateVars,
                   signalVars, priceVars, lifecycleVars, sniperVars, traderVars>>

\* except Exception: logger.error("Fatal error"); sys.exit(1); finally bot.stop()
BootFatal ==
    /\ boot.pc = "fatal"
    /\ boot' = [pc |-> "exited_1", started |-> {}]
    /\ UNCHANGED <<now, boot_env, analyzerVars, configVars, combineVars, gatherVars, sn_monitor_pc, lateVars,
                   signalVars, priceVars, lifecycleVars, sniperVars, traderVars>>

DoBootStart == \E ok \in BOOLEAN : BootStart(ok)
DoBootCommand == \E st \in Strategies : BootCommand(st)

BootNext ==
    \/ BootInitialize
    \/ DoBootStart
    \/ DoBootCommand
    \/ BootSignal
    \/ BootFatal

\* main() runs: initialize returns or raises, and a fatal error is handled
BootFairness == WF_vars(BootInitialize) /\ WF_vars(BootFatal)

(***************************************************************************)
(* _monitor_positions as a task: a pass, then asyncio.sleep, while the     *)
(* strategy is running.                                                    *)
(***************************************************************************)
MonitorIdle == sn_monitor_pc = "none"

\* one pass over self.positions; p is what the price oracle answers
SniperMonitorPass(p) ==
    /\ sn_monitor_pc = "pass"
    /\ IF SniperTokens \cap DOMAIN sn_positions = {}
       THEN /\ strategy = "sniper"
            /\ UNCHANGED <<now, analyzerVars, configVars, traderVars, sniperVars>>
       ELSE \E t \in SniperTokens : MonitorPositionBody(t, p)
    /\ sn_monitor_pc' = "sleep"
    /\ UNCHANGED <<signalVars, priceVars, lifecycleVars, combineVars, gatherVars,
                   bootVars, lateVars>>

\* await asyncio.sleep(10) returns
SniperMonitorSleep ==
    /\ sn_monitor_pc = "sleep"
    /\ sn_monitor_pc' = "pass"
    /\ UNCHANGED <<now, analyzerVars, configVars, traderVars, sniperVars, signalVars,
                   priceVars, lifecycleVars, combineVars, gatherVars, bootVars,
                   lateVars>>

DoSniperMonitorPass == \E p \in SniperPrices : SniperMonitorPass(p)

MonitorNext ==
    \/ DoAnalyzeNewToken
    \/ DoSnipeOtherToken
    \/ DoSniperMonitorPass
    \/ SniperMonitorSleep
    \/ CleanupOldOpportunities
    \/ DoSignalStep
    \/ DoManagePosition
    \/ DoManagePositionResume
    \/ StrategyTick

\* The event loop runs the monitor task of each strategy: a pass is made, a
\* sleep ends, the price oracle answers.  Nothing is assumed about what
\* the oracle answers.
MonitorFairness ==
    /\ WF_vars(DoSniperMonitorPass)
    /\ WF_vars(SniperMonitorSleep)
    /\ WF_vars(DoManagePosition)
    /\ WF_vars(DoManagePositionResume)

(***************************************************************************)
(* The parts of AltcoinTrader, TelegramBot and MemecoinSniper that are     *)
(* followed in specifications of their own.                                *)
(***************************************************************************)
InitialSamples == 96                \* hours * 4 samples of _get_historical_prices

\* AltcoinTrader.__init__ and a successful _initialize_price_history, under
\* the default configuration
SwingIdle ==
    /\ at_price_history = InitialSamples
    /\ at_max_investment = altcoin_max_investment_usd * 100
    /\ at_portfolio_value_usd = 0
    /\ at_peak_portfolio_value = 0
    /\ at_max_drawdown = 0

\* TelegramBot.__init__
AlertIdle == last_alert_time = EmptyDict /\ alert_sent = EmptyDict

\* MemecoinSniper.__init__
ExposureIdle ==
    /\ fl_max_investment = max_memecoin_investment_usd * 10
    /\ fl_total_invested = FloatLit(0)
    /\ fl_positions = 0

\* TelegramBot.__init__: no strategy started
RestartIdle == strategy_active = FALSE /\ start_tasks = 0 /\ loop_instances = <<>>

LateIdle == SwingIdle /\ AlertIdle /\ ExposureIdle /\ RestartIdle

(***************************************************************************)
(* _price_monitoring_loop and _signal_generation_loop with the price       *)
(* history of the token.  Only the number of samples is kept.              *)
(***************************************************************************)
MinSamples == 50                    \* len(self.price_history[...]) < 50: continue
MaxSamples == 97

\* what SpecSignalLoop leaves alone
signalLoopFrame ==
    <<signalVars, priceVars, lifecycleVars, combineVars, gatherVars, bootVars,
      sn_monitor_pc, alertVars, exposureVars, restartVars, at_max_investment,
      at_portfolio_value_usd, at_peak_portfolio_value, at_max_drawdown>>

\* One token's turn in _price_monitoring_loop; p is the oracle's answer.  A
\* price is appended and the samples older than 48 hours are dropped: the
\* new sample stays, and kept is the number of samples that stay.
PriceMonitoringStep(p, kept) ==
    /\ strategy = "trader"
    /\ IF p = NoPrice
       THEN UNCHANGED at_price_history
       ELSE /\ at_price_history < MaxSamples
            /\ kept \in 1..(at_price_history + 1)
            /\ at_price_history' = kept
    /\ UNCHANGED <<now, analyzerVars, configVars, sniperVars, traderVars,
                   signalLoopFrame>>

\* SignalLoopStep without the test of the length of the history
SignalLoopStep_NoHistoryGate(t, ind, price) ==
    /\ SignalStepBody(t, ind, price)
    /\ UNCHANGED <<at_price_history, signalLoopFrame>>

\* one token's turn in _signal_generation_loop
SignalLoopStep(t, ind, price) ==
    /\ IF at_price_history < MinSamples
       THEN /\ strategy = "trader"
            /\ UNCHANGED <<now, analyzerVars, configVars, sniperVars, traderVars>>
       ELSE SignalStepBody(t, ind, price)
    /\ UNCHANGED <<at_price_history, signalLoopFrame>>

DoPriceMonitoringStep ==
    \E p \in TraderPrices, kept \in 1..(MaxSamples + 1) : PriceMonitoringStep(p, kept)
DoSignalLoopStep ==
    \E t \in TraderTokens, ind \in IndicatorSets, price \in SignalPrices :
        SignalLoopStep(t, ind, price)

SignalLoopNext == DoPriceMonitoringStep \/ DoSignalLoopStep

(***************************************************************************)
(* _rebalance_portfolio, and the swing strategy under several configured   *)
(* maximum investments.                                                    *)
(***************************************************************************)
ReinvestThreshold == 10000          \* total_profit_usd > 100, in cents
SwingMaxInvestments == {500, 10000, 50000}  \* ALTCOIN_MAX_INVESTMENT_USD 5, 100, 500
SwingSignalPrices == {100, 120}
SwingPrices == {NoPrice, 85, 150}   \* no answer, the stop, the target

\* current_drawdown = (peak - total_value) / peak, in ten-thousandths
\* (rounded down)
Drawdown(peak, total) == ((peak - total) * 10000) \div peak

\* position.amount * current_price, cents
PositionValue(pos, p) == (pos.investment_usd * p) \div pos.entry_price

\* total_value of _rebalance_portfolio when the oracle answers p
TotalValue(p) ==
    at_available_balance_usd
    + (IF \E t \in TraderTokens : HasActive(t) /\ p # NoPrice
       THEN PositionValue(at_heap[at_positions[CHOOSE t \in TraderTokens : HasActive(t)]], p)
       ELSE 0)

\* the peak after "if total_value > self.peak_portfolio_value"
PeakAfter_Latest(total) == total
PeakAfter(total) ==
    IF total > at_peak_portfolio_value THEN total ELSE at_peak_portfolio_value

\* One pass of _rebalance_portfolio; p is the oracle's answer for the held
\* token.  With a peak of 0 the division raises ZeroDivisionError and the
\* except branch ends the pass.
RebalancePortfolio(p) ==
    /\ strategy = "trader"
    /\ at_portfolio_value_usd' = TotalValue(p)
    /\ at_peak_portfolio_value' = PeakAfter(TotalValue(p))
    /\ IF PeakAfter(TotalValue(p)) = 0
       THEN UNCHANGED <<at_max_drawdown, traderTotals>>
       ELSE /\ at_max_drawdown' =
                  IF Drawdown(PeakAfter(TotalValue(p)), TotalValue(p)) > at_max_drawdown
                  THEN Drawdown(PeakAfter(TotalValue(p)), TotalValue(p))
                  ELSE at_max_drawdown
            /\ IF at_total_profit_usd > ReinvestThreshold
               THEN /\ at_available_balance_usd' =
                          at_available_balance_usd + at_total_profit_usd \div 2
                    /\ at_total_profit_usd' =
                          at_total_profit_usd - at_total_profit_usd \div 2
                    /\ UNCHANGED <<at_total_trades, at_profitable_trades>>
               ELSE UNCHANGED traderTotals
    /\ UNCHANGED <<at_heap, at_positions, at_pm, at_price_history, at_max_investment>>
    /\ UNCHANGED <<now, analyzerVars, configVars, sniperVars, signalVars, priceVars,
                   lifecycleVars, combineVars, gatherVars, bootVars, sn_monitor_pc,
                   alertVars, exposureVars, restartVars>>

DoSwingSignalStep ==
    \E t \in TraderTokens, ind \in IndicatorSets, price \in SwingSignalPrices :
        SignalStep(t, ind, price)
DoSwingManagePositionResume == \E p \in SwingPrices : ManagePositionResume(p)
DoRebalancePortfolio == \E p \in SwingPrices : RebalancePortfolio(p)

SwingNext ==
    \/ DoAnalyzeNewToken
    \/ DoMonitorPosition
    \/ DoSwingSignalStep
    \/ DoManagePosition
    \/ DoSwingManagePositionResume
    \/ DoRebalancePortfolio

(***************************************************************************)
(* The investment limit of the sniper with total_invested as the float it  *)
(* is: _should_snipe_token compares the running sum of the investments     *)
(* with max_memecoin_investment_usd * 10.                                  *)
(***************************************************************************)
ExposureMaxima == 1..12             \* MAX_MEMECOIN_INVESTMENT_USD 0.1, 0.2 .. 1.2

\* a * 10 on floats
FloatTimesTen(a) == FloatRound(10 * a.t, 10 * a.e)

\* "if self.total_invested >= max_memecoin_investment_usd * 10"
ExposureLimitReached ==
    ~FloatLess(fl_total_invested, FloatTimesTen(FloatLit(fl_max_investment)))

\* _analyze_new_token for a token met for the first time, whose launch l
\* passes every other test, followed by _execute_snipe
ExposureSnipe(l) ==
    /\ strategy = "sniper"
    /\ LaunchBranch(OtherToken, l.receipt_ok, l.info, l.sec) = "opportunity"
    /\ ScoreOk(MemecoinOpportunity(OtherToken, l.info, l.sec, now))
    /\ ~ExposureLimitReached
    /\ SnipeOpens(l.price)
    /\ fl_positions' = fl_positions + 1
    /\ fl_total_invested' = FloatAdd(fl_total_invested, FloatLit(fl_max_investment))
    /\ UNCHANGED <<fl_max_investment, swingVars, alertVars, restartVars>>
    /\ UNCHANGED <<now, analyzerVars, configVars, sniperVars, traderVars, signalVars,
                   priceVars, lifecycleVars, combineVars, gatherVars, bootVars,
                   sn_monitor_pc>>

ExposureNext == \E l \in Launches : ExposureSnipe(l)

(***************************************************************************)
(* The alerts of the Telegram bot: send_alert with its cooldown per alert  *)
(* type.  alert_sent records, per alert type, the times at which           *)
(* _send_message was called for it.                                        *)
(***************************************************************************)
AlertCooldownMinutes == 5           \* ALERT_COOLDOWN_MINUTES
alert_cooldown == AlertCooldownMinutes * 60
AlertTypes == {"profit", "error"}
MaxAlertTicks == 5                  \* the clock is explored up to MaxAlertTicks thirds of a cooldown
AlertSteps == {alert_cooldown \div 3, alert_cooldown}

alertFrame == <<analyzerVars, configVars, sniperVars, traderVars, signalVars, priceVars,
                lifecycleVars, combineVars, gatherVars, bootVars, sn_monitor_pc,
                swingVars, exposureVars, restartVars>>

\* "if alert_type in self.last_alert_time: ... if time_since_last < self.alert_cooldown"
InCooldown(times, alert_type, t) ==
    /\ alert_type \in DOMAIN times
    /\ t - times[alert_type] < alert_cooldown

Sent(sent, alert_type) ==
    IF alert_type \in DOMAIN sent THEN sent[alert_type] ELSE <<>>

\* send_alert that notes the time of every call
SendAlert_NoteEveryCall(alert_type) ==
    /\ last_alert_time' = DictPut(last_alert_time, alert_type, now)
    /\ IF InCooldown(last_alert_time, alert_type, now)
       THEN alert_sent' = alert_sent
       ELSE alert_sent' = DictPut(alert_sent, alert_type,
                                  Append(Sent(alert_sent, alert_type), now))
    /\ UNCHANGED <<now, alertFrame>>

\* send_alert(alert_type, message)
SendAlert(alert_type) ==
    /\ IF InCooldown(last_alert_time, alert_type, now)
       THEN UNCHANGED alertVars
       ELSE /\ last_alert_time' = DictPut(last_alert_time, alert_type, now)
            /\ alert_sent' = DictPut(alert_sent, alert_type,
                                     Append(Sent(alert_sent, alert_type), now))
    /\ UNCHANGED <<now, alertFrame>>

\* time passes between two alerts
AlertTick ==
    \E d \in AlertSteps :
        /\ now + d <= MaxAlertTicks * (alert_cooldown \div 3)
        /\ now' = now + d
        /\ UNCHANGED <<alertVars, alertFrame>>

DoSendAlert == \E alert_type \in AlertTypes : SendAlert(alert_type)

AlertNext == DoSendAlert \/ AlertTick

(***************************************************************************)
(* Starting and stopping a strategy from the Telegram bot, any number of   *)
(* times.  Every start() that finds is_running false creates the polling   *)
(* loops anew; loop_instances holds, per such start(), where each of its   *)
(* loops stands: at the test "while self.is_running" ("check"), in the     *)
(* sleep after a pass ("sleep"), or returned ("done").  stop() only clears *)
(* the flag.                                                               *)
(***************************************************************************)
MaxStarts == 2                      \* start commands accepted by the bot

restartFrame == <<now, analyzerVars, configVars, sniperVars, traderVars, signalVars,
                  priceVars, start_call, task_pc, ws_pending, stop_requested,
                  combineVars, gatherVars, bootVars, sn_monitor_pc,
                  swingVars, alertVars, exposureVars>>

\* _start_memecoin_sniper / _start_altcoin_trader: the bot's flag is set and
\* start() is scheduled with asyncio.create_task
BotStart ==
    /\ IF strategy_active
       THEN UNCHANGED <<strategy_active, start_tasks>>
       ELSE /\ Len(loop_instances) + start_tasks < MaxStarts
            /\ strategy_active' = TRUE
            /\ start_tasks' = start_tasks + 1
    /\ UNCHANGED <<is_running, loop_instances, restartFrame>>

\* start(), run by the event loop, up to its await of asyncio.gather
StrategyStart ==
    /\ start_tasks > 0
    /\ start_tasks' = start_tasks - 1
    /\ IF is_running
       THEN UNCHANGED <<is_running, loop_instances>>
       ELSE /\ is_running' = TRUE
            /\ loop_instances' = Append(loop_instances, [k \in LoopTasks |-> "check"])
    /\ UNCHANGED <<strategy_active, restartFrame>>

\* _stop_memecoin_sniper / _stop_altcoin_trader with the stop() it awaits
BotStop ==
    /\ IF strategy_active
       THEN is_running' = FALSE /\ strategy_active' = FALSE
       ELSE UNCHANGED <<is_running, strategy_active>>
    /\ UNCHANGED <<start_tasks, loop_instances, restartFrame>>

\* one step of loop k of the i-th start(): the test of the flag followed by
\* a pass, or the end of the sleep
InstanceStep(i, k) ==
    /\ loop_instances[i][k] # "done"
    /\ loop_instances' =
          [loop_instances EXCEPT ![i][k] =
              CASE @ = "check" -> IF is_running THEN "sleep" ELSE "done"
                [] @ = "sleep" -> "check"]
    /\ UNCHANGED <<is_running, strategy_active, start_tasks, restartFrame>>

DoInstanceStep ==
    \E i \in 1..Len(loop_instances) : \E k \in LoopTasks : InstanceStep(i, k)

RestartNext == BotStart \/ StrategyStart \/ BotStop \/ DoInstanceStep

\* the parts added to the model that a specification does not follow
ExtraIdle == CombineIdle /\ GatherIdle /\ BootIdle /\ MonitorIdle /\ LateIdle

\* the signal combination and the price oracle are not being called, and
\* start() and stop() are not followed
UtilIdle == SignalIdle /\ PriceInit /\ LifecycleInit /\ ExtraIdle

StrategiesInit ==
    /\ now = 0
    /\ dry_run_mode \in BOOLEAN
    /\ strategy \in {"sniper", "trader"}
    /\ trading = DefaultTrading
    /\ swap_ok = TRUE
    /\ AnalyzerInit
    /\ SniperInit
    /\ TraderInit
    /\ UtilIdle

SpecStrategies == StrategiesInit /\ [][StrategiesNext]_vars

AnalyzerSpecInit ==
    /\ now = 0
    /\ dry_run_mode = FALSE
    /\ strategy = "analyzer"
    /\ trading = DefaultTrading
    /\ swap_ok = TRUE
    /\ AnalyzerInit
    /\ SniperInit
    /\ TraderInit
    /\ UtilIdle

SpecAnalyzer == AnalyzerSpecInit /\ [][AnalyzerNext]_vars

\* _generate_trading_signal applied once to each indicators dict
SignalInit ==
    /\ now = 0
    /\ dry_run_mode = FALSE
    /\ strategy = "trader"
    /\ trading = DefaultTrading
    /\ swap_ok = TRUE
    /\ AnalyzerInit
    /\ SniperInit
    /\ TraderInit
    /\ sig_indicators \in IndicatorDomain
    /\ sig_signal = NoSignal
    /\ PriceInit
    /\ LifecycleInit
    /\ ExtraIdle

SpecSignal == SignalInit /\ [][GenerateSignalCall]_vars

PriceSpecInit ==
    /\ now = 0
    /\ dry_run_mode = FALSE
    /\ strategy = "sniper"
    /\ trading = DefaultTrading
    /\ swap_ok = TRUE
    /\ AnalyzerInit
    /\ SniperInit
    /\ TraderInit
    /\ SignalIdle
    /\ PriceInit
    /\ LifecycleInit
    /\ ExtraIdle

SpecPrice == PriceSpecInit /\ [][PriceNext]_vars

\* the strategies in live mode under every configuration load_config accepts
ConfigInit ==
    /\ now = 0
    /\ dry_run_mode = FALSE
    /\ strategy \in {"sniper", "trader"}
    /\ \E env \in Environs : LoadConfigAccepts(env) /\ trading = LoadTrading(env)
    /\ swap_ok = TRUE
    /\ AnalyzerInit
    /\ SniperInit
    /\ TraderInit
    /\ UtilIdle

SpecConfig == ConfigInit /\ [][StrategiesNext]_vars

\* swaps start or stop to go through
SwapOutcome ==
    /\ swap_ok' = ~swap_ok
    /\ UNCHANGED <<now, dry_run_mode, strategy, trading, analyzerVars, utilVars,
                   sniperVars, traderVars>>

\* the strategies in live mode, with swaps that can fail
SwapsInit ==
    /\ now = 0
    /\ dry_run_mode = FALSE
    /\ strategy \in {"sniper", "trader"}
    /\ trading = DefaultTrading
    /\ swap_ok = TRUE
    /\ AnalyzerInit
    /\ SniperInit
    /\ TraderInit
    /\ UtilIdle

SwapsNext == StrategiesNext \/ SwapOutcome

SpecSwaps == SwapsInit /\ [][SwapsNext]_vars

\* one strategy object, started and stopped
LifecycleSpecInit ==
    /\ now = 0
    /\ dry_run_mode = FALSE
    /\ strategy \in {"sniper", "trader"}
    /\ trading = DefaultTrading
    /\ swap_ok = TRUE
    /\ AnalyzerInit
    /\ SniperInit
    /\ TraderInit
    /\ SignalIdle
    /\ PriceInit
    /\ LifecycleInit
    /\ ExtraIdle

SpecLifecycle == LifecycleSpecInit /\ [][LifecycleNext]_vars /\ LifecycleFairness

\* _combine_analysis_results applied once to each list of check outputs
CombineInit ==
    /\ now = 0
    /\ dry_run_mode = FALSE
    /\ strategy = "analyzer"
    /\ trading = DefaultTrading
    /\ swap_ok = TRUE
    /\ AnalyzerInit
    /\ SniperInit
    /\ TraderInit
    /\ SignalIdle
    /\ PriceInit
    /\ LifecycleInit
    /\ comb_results \in CombineDomain
    /\ comb_out = NoResult
    /\ GatherIdle
    /\ BootIdle
    /\ MonitorIdle
    /\ LateIdle

SpecCombine == CombineInit /\ [][CombineCall]_vars

\* analyze_contract calls, one at a time, with the checks as tasks
SpecGather == AnalyzerSpecInit /\ [][GatherNext]_vars

\* the process is started under each environment
BootInit ==
    /\ now = 0
    /\ dry_run_mode = FALSE
    /\ strategy = "none"
    /\ trading = DefaultTrading
    /\ swap_ok = TRUE
    /\ AnalyzerInit
    /\ SniperInit
    /\ TraderInit
    /\ SignalIdle
    /\ PriceInit
    /\ LifecycleInit
    /\ CombineIdle
    /\ GatherIdle
    /\ MonitorIdle
    /\ LateIdle
    /\ boot_env \in BootEnvs
    /\ boot = [pc |-> "main", started |-> {}]

SpecBoot == BootInit /\ [][BootNext]_vars /\ BootFairness

\* the strategies in live mode, with the monitor loops scheduled fairly
MonitorInit ==
    /\ now = 0
    /\ dry_run_mode = FALSE
    /\ strategy \in {"sniper", "trader"}
    /\ trading = DefaultTrading
    /\ swap_ok = TRUE
    /\ AnalyzerInit
    /\ SniperInit
    /\ TraderInit
    /\ SignalIdle
    /\ PriceInit
    /\ LifecycleInit
    /\ CombineIdle
    /\ GatherIdle
    /\ BootIdle
    /\ LateIdle
    /\ sn_monitor_pc = "pass"

SpecMonitor == MonitorInit /\ [][MonitorNext]_vars /\ MonitorFairness

\* the trader after start(): _initialize_price_history has filled the
\* history, or _get_historical_prices failed and returned []
SignalLoopInit ==
    /\ now = 0
    /\ dry_run_mode \in BOOLEAN
    /\ strategy = "trader"
    /\ trading = DefaultTrading
    /\ swap_ok = TRUE
    /\ AnalyzerInit
    /\ SniperInit
    /\ TraderInit
    /\ SignalIdle
    /\ PriceInit
    /\ LifecycleInit
    /\ CombineIdle
    /\ GatherIdle
    /\ BootIdle
    /\ MonitorIdle
    /\ at_price_history \in {0, InitialSamples}
    /\ at_max_investment = altcoin_max_investment_usd * 100
    /\ at_portfolio_value_usd = 0
    /\ at_peak_portfolio_value = 0
    /\ at_max_drawdown = 0
    /\ AlertIdle
    /\ ExposureIdle
    /\ RestartIdle

SpecSignalLoop == SignalLoopInit /\ [][SignalLoopNext]_vars

\* both strategies in live mode, the trader under each configured maximum
SwingInit ==
    /\ now = 0
    /\ dry_run_mode = FALSE
    /\ strategy \in {"sniper", "trader"}
    /\ trading = DefaultTrading
    /\ swap_ok = TRUE
    /\ AnalyzerInit
    /\ SniperInit
    /\ TraderInit
    /\ SignalIdle
    /\ PriceInit
    /\ LifecycleInit
    /\ CombineIdle
    /\ GatherIdle
    /\ BootIdle
    /\ MonitorIdle
    /\ at_price_history = InitialSamples
    /\ at_max_investment \in SwingMaxInvestments
    /\ at_portfolio_value_usd = 0
    /\ at_peak_portfolio_value = 0
    /\ at_max_drawdown = 0
    /\ AlertIdle
    /\ ExposureIdle
    /\ RestartIdle

SpecSwing == SwingInit /\ [][SwingNext]_vars

\* the sniper in live mode under each configured maximum investment
ExposureInit ==
    /\ now = 0
    /\ dry_run_mode = FALSE
    /\ strategy = "sniper"
    /\ trading = DefaultTrading
    /\ swap_ok = TRUE
    /\ AnalyzerInit
    /\ SniperInit
    /\ TraderInit
    /\ SignalIdle
    /\ PriceInit
    /\ LifecycleInit
    /\ CombineIdle
    /\ GatherIdle
    /\ BootIdle
    /\ MonitorIdle
    /\ SwingIdle
    /\ AlertIdle
    /\ fl_max_investment \in ExposureMaxima
    /\ fl_total_invested = FloatLit(0)
    /\ fl_positions = 0
    /\ RestartIdle

SpecExposure == ExposureInit /\ [][ExposureNext]_vars

\* the bot after construction
AlertInit ==
    /\ now = 0
    /\ dry_run_mode = FALSE
    /\ strategy = "sniper"
    /\ trading = DefaultTrading
    /\ swap_ok = TRUE
    /\ AnalyzerInit
    /\ SniperInit
    /\ TraderInit
    /\ SignalIdle
    /\ PriceInit
    /\ LifecycleInit
    /\ CombineIdle
    /\ GatherIdle
    /\ BootIdle
    /\ MonitorIdle
    /\ LateIdle

SpecAlerts == AlertInit /\ [][AlertNext]_vars

\* the bot and a strategy after construction
RestartInit ==
    /\ now = 0
    /\ dry_run_mode = FALSE
    /\ strategy \in {"sniper", "trader"}
    /\ trading = DefaultTrading
    /\ swap_ok = TRUE
    /\ AnalyzerInit
    /\ SniperInit
    /\ TraderInit
    /\ SignalIdle
    /\ PriceInit
    /\ LifecycleInit
    /\ CombineIdle
    /\ GatherIdle
    /\ BootIdle
    /\ MonitorIdle
    /\ LateIdle

SpecRestart == RestartInit /\ [][RestartNext]_vars







(***************************************************************************)
(* Claims about the analyzer, checked under SpecAnalyzer.                  *)
(***************************************************************************)
WorstCase(r) == r.risk_score = FloatLit(10) /\ r.is_honeypot

\* C1: for every address that is on the blacklist at the time of the call,
\* analyze_contract returns risk_score = 1.0 and is_honeypot = true and runs
\* none of the five checks, whatever calls preceded it.
C1_BlacklistedAlwaysWorstCase ==
    (last.op = "analyze" /\ IsStr(last.addr)
        /\ Lower(last.addr) \in blacklisted_addresses)
    => (WorstCase(last.result) /\ last.checks_run = 0)

RiskWellFormed(r) ==
    /\ ~FloatLess(r.risk_score, FloatLit(0))
    /\ ~FloatLess(FloatLit(10), r.risk_score)
    /\ (~FloatLess(r.risk_score, FloatLit(8)) => r.is_honeypot)

\* C4: every SecurityResult returned by analyze_contract, on every path (and
\* every result kept in the cache), has 0.0 <= risk_score <= 1.0, and
\* risk_score >= 0.8 implies is_honeypot.
C4_RiskScoreInRange ==
    /\ last.op = "analyze" => RiskWellFormed(last.result)
    /\ \A k \in DOMAIN analysis_cache : RiskWellFormed(analysis_cache[k])

\* C4 witness: the checks were combined into a result whose accumulated
\* risk is exactly 0.8 and that no check had flagged as honeypot.
C4_Witness ==
    /\ last.op = "analyze" /\ last.path = "combined"
    /\ last.result.risk_score = FloatLit(8) /\ last.result.is_honeypot

\* C5: for a malformed address, and whenever none of the checks could
\* complete, analyze_contract returns the worst case: is_honeypot = true,
\* risk_score = 1.0 and at least one warning.
C5_UnknownIsWorstCase ==
    (last.op = "analyze" /\ (Malformed(last.addr) \/ last.all_failed))
    => (WorstCase(last.result) /\ Len(last.result.warnings) >= 1)

\* C7: two analyze_contract calls for one address (compared
\* case-insensitively) made less than cache_duration apart, with no
\* clear_cache in between, return identical results and the second runs
\* none of the five checks.
C7_CacheIdempotent ==
    [][\A a \in StrAddrs : \A env \in EnvFor(a) :
          (/\ AnalyzeContract(a, env)
           /\ Lower(a) \in DOMAIN prior
           /\ now - prior[Lower(a)].at < cache_duration)
          => (/\ last'.result = prior[Lower(a)].result
              /\ last'.checks_run = 0)]_vars

(***************************************************************************)
(* Claims about the strategies.                                            *)
(***************************************************************************)
HeapIds == 1..Len(at_heap)
SniperActive(t) == t \in DOMAIN sn_positions /\ sn_positions[t].status = "active"
TraderActive(t) == \E i \in HeapIds :
    at_heap[i].token_address = t /\ at_heap[i].status = "active"

\* C2: a position that has left status "active" never changes again, and
\* the totals are credited only by the step that closes an active position.
C2_ClosedIsTerminal ==
    [][/\ \A i \in HeapIds :
            at_heap[i].status # "active" => at_heap'[i] = at_heap[i]
       /\ (at_total_profit_usd' # at_total_profit_usd
           \/ at_available_balance_usd' > at_available_balance_usd)
          => \E i \in HeapIds :
                at_heap[i].status = "active" /\ at_heap'[i].status # "active"
       /\ \A t \in DOMAIN sn_positions :
            sn_positions[t].status # "active" => sn_positions'[t] = sn_positions[t]
      ]_vars

AtMostOneActive ==
    \A i, j \in HeapIds :
        (/\ at_heap[i].status = "active"
         /\ at_heap[j].status = "active"
         /\ at_heap[i].token_address = at_heap[j].token_address) => i = j

\* C3: in each strategy an attempt to open a position on a token that has
\* an active position leaves the positions map and the totals unchanged,
\* and no token ever has two active positions.
C3_NoSecondActive ==
    [][/\ \A t \in SniperTokens, l \in Launches :
            (AnalyzeNewToken(t, l) /\ SniperActive(t))
            => UNCHANGED <<sn_positions, sn_other_positions, sniperTotals>>
       /\ \A t \in TraderTokens, ind \in IndicatorSets, price \in SignalPrices :
            (/\ SignalStep(t, ind, price)
             /\ GenerateTradingSignal(ind).type = "buy"
             /\ TraderActive(t))
            => UNCHANGED <<at_heap, at_positions, traderTotals>>
       /\ AtMostOneActive'
      ]_vars

\* a second launch of t1 with a passing score was recorded after its
\* position was opened, and the position is still the one active position
C3_Witness ==
    /\ SniperActive("t1")
    /\ \E i \in 1..Len(sn_opportunities) :
          /\ sn_opportunities[i].token_address = "t1"
          /\ sn_opportunities[i].detected_at > sn_positions["t1"].entry_time
          /\ CombinedScore(sn_opportunities[i]) >= 6000

\* C6: in dry-run mode a launch that passes the gate, with a price
\* available, creates an active position and books the investment, as a
\* live snipe does.
C6_DryRunOpensPosition ==
    [][\A t \in SniperTokens, l \in Launches :
          (/\ AnalyzeNewToken(t, l)
           /\ dry_run_mode
           /\ LaunchBranch(t, l.receipt_ok, l.info, l.sec) = "opportunity"
           /\ ShouldSnipeToken(MemecoinOpportunity(t, l.info, l.sec, now))
           /\ l.price # NoPrice)
          => /\ t \in DOMAIN sn_positions'
             /\ sn_positions'[t].status = "active"
             /\ sn_total_invested' = sn_total_invested + 800
             /\ t \in DOMAIN sn_last_purchase_time'
      ]_vars

\* C8: a launch whose analysis says honeypot or risk above 0.7 puts the
\* token on the sniper's blacklist and records no opportunity and no
\* position; a blacklisted token never gets a position; the blacklist only
\* grows.
C8_BadTokenBlacklisted ==
    [][/\ sn_blacklisted_tokens \subseteq sn_blacklisted_tokens'
       /\ \A t \in SniperTokens, l \in Launches :
            (/\ AnalyzeNewToken(t, l)
             /\ l.receipt_ok /\ l.info # NoInfo /\ t \notin sn_blacklisted_tokens
             /\ (l.sec.is_honeypot \/ l.sec.risk_score > 7))
            => /\ t \in sn_blacklisted_tokens'
               /\ sn_opportunities' = sn_opportunities
               /\ sn_positions' = sn_positions
       /\ \A t \in sn_blacklisted_tokens :
            t \in DOMAIN sn_positions'
            => /\ t \in DOMAIN sn_positions
               /\ sn_positions'[t].entry_time = sn_positions[t].entry_time
      ]_vars

\* t1 was blacklisted without ever getting a position or an opportunity,
\* while other tokens were sniped
C8_Witness ==
    /\ "t1" \in sn_blacklisted_tokens
    /\ "t1" \notin DOMAIN sn_positions
    /\ sn_opportunities = <<>>
    /\ sn_other_positions > 0

C9_GateHolds(t, opp) ==
    /\ CombinedScore(opp) >= 6000
    /\ ~SniperActive(t)
    /\ (t \in DOMAIN sn_last_purchase_time => now - sn_last_purchase_time[t] >= 30)
    /\ sn_total_invested < 10 * 800

C9_Opened(t) ==
    IF t = OtherToken
    THEN sn_other_positions' # sn_other_positions
    ELSE /\ t \in DOMAIN sn_positions'
         /\ (t \in DOMAIN sn_positions => sn_positions'[t] # sn_positions[t])

\* C9: the sniper opens a position only when the score is at least 0.6,
\* the token has no active position, 30 seconds have passed since its last
\* purchase and the invested total is below ten times the per-token
\* investment; when one of them fails on a recorded opportunity, positions,
\* totals and purchase times stay as they were.
C9_SnipeGate ==
    [][\A t \in SniperTokens \cup {OtherToken}, l \in Launches :
          LET opp == MemecoinOpportunity(t, l.info, l.sec, now)
              step == IF t = OtherToken THEN SnipeOtherToken(l)
                                        ELSE AnalyzeNewToken(t, l)
          IN  step =>
                /\ C9_Opened(t) => C9_GateHolds(t, opp)
                /\ ~C9_GateHolds(t, opp)
                   => UNCHANGED <<sn_positions, sn_other_positions, sniperTotals,
                                  sn_last_purchase_time>>
      ]_vars

\* ten positions are open, and a launch of t1 that scored 0.79 with a
\* price at hand was recorded without a position: the limit refused it
C9_Witness ==
    /\ sn_total_invested = 8000
    /\ "t1" \notin DOMAIN sn_positions
    /\ \E i \in 1..Len(sn_opportunities) :
          /\ sn_opportunities[i].token_address = "t1"
          /\ sn_opportunities[i].risk_score = 7
          /\ CombinedScore(sn_opportunities[i]) = 7900

C10_Expected(pos, p, hold) ==
    IF p >= pos.target_price THEN "sold_profit"
    ELSE IF p <= pos.stop_loss_price THEN "sold_loss"
    ELSE IF now - pos.entry_time > hold THEN "sold_timeout"
    ELSE "active"

\* C10: both monitors, for an active position and an available price,
\* close it as profit at or above the target, else as loss at or below the
\* stop, else as timeout strictly after the maximum hold (24 hours, 7
\* days), else leave it active.
C10_ExitOrder ==
    [][/\ \A t \in SniperTokens, p \in SniperPrices \ {NoPrice} :
            (MonitorPosition(t, p) /\ sn_positions[t].status = "active")
            => sn_positions'[t].status = C10_Expected(sn_positions[t], p, 86400)
       /\ \A p \in TraderPrices \ {NoPrice} :
            (ManagePositionResume(p) /\ at_heap[at_pm.pos].status = "active")
            => at_heap'[at_pm.pos].status
                   = C10_Expected(at_heap[at_pm.pos], p, 604800)
      ]_vars

\* a position one unit below its target was closed by the timeout
C10_Witness ==
    /\ "t1" \in DOMAIN sn_positions
    /\ sn_positions["t1"].status = "sold_timeout"
    /\ sn_total_profit = 792

(***************************************************************************)
(* Further claims about the analyzer, checked under SpecAnalyzer.          *)
(***************************************************************************)
\* C14: every result that analyze_contract returns for an address that had
\* no valid cache entry is stored in the cache under the lowercased address
\* before the call returns, the blacklist worst case and the error worst
\* case included.
C14_EveryResultCached ==
    (last.op = "analyze" /\ last.path # "cache" /\ IsStr(last.addr))
    => (/\ Lower(last.addr) \in DOMAIN analysis_cache
        /\ analysis_cache[Lower(last.addr)] = last.result)

\* The accumulator that the checks which completed would produce by
\* themselves: the block of a check that failed is left out.
C13_SuccessfulOnly(env) ==
    LET r == RunChecks(env)
        a == CombineHoneypot(r.hp)
        b == IF env.code.ok THEN CombineCode(a, r.code) ELSE a
        c == IF env.verif.outcome # "failed" THEN CombineVerification(b, r.verif) ELSE b
        d == IF env.tx.outcome # "failed" THEN CombineTransactions(c, r.tx) ELSE c
    IN  d

\* C13: in analyze_contract a check that fails contributes nothing: for any
\* subset of failed checks the risk_score and the warnings of the combined
\* result are exactly those that the successful checks alone produce.
C13_FailedCheckContributesNothing ==
    [][\A a \in StrAddrs : \A env \in EnvFor(a) :
          (/\ AnalyzeContract(a, env)
           /\ Path(a) = "combined"
           /\ ~(env.hp.hp_ok /\ env.hp.tax_null))
          => (/\ last'.result.risk_score = CapRisk(C13_SuccessfulOnly(env).risk)
              /\ last'.result.warnings = C13_SuccessfulOnly(env).w)]_vars

\* Two spellings of one address: equal up to the case of each letter.
C20_SameLetter(c, d) == c = d \/ {c, d} \in {{"a", "A"}, {"b", "B"}}
C20_SameAddress(a, b) ==
    Len(a) = Len(b) /\ \A i \in 1..Len(a) : C20_SameLetter(a[i], b[i])
C20_Listed(a, set) == \E e \in set : C20_SameAddress(e, a)

\* C20: add_to_blacklist and remove_from_blacklist are idempotent and
\* case-insensitive: adding an address that is listed in any letter case
\* changes nothing, adding lists it and touches no other entry, removing
\* leaves no entry that equals the address in any letter case and touches
\* no other entry, and removing an address that is not listed changes
\* nothing.
C20_BlacklistIdempotent ==
    [][\A a \in StrAddrs :
          /\ AddToBlacklist(a) =>
                /\ C20_Listed(a, blacklisted_addresses')
                /\ blacklisted_addresses \subseteq blacklisted_addresses'
                /\ \A e \in blacklisted_addresses' \ blacklisted_addresses :
                      C20_SameAddress(e, a)
                /\ C20_Listed(a, blacklisted_addresses)
                      => blacklisted_addresses' = blacklisted_addresses
          /\ RemoveFromBlacklist(a) =>
                /\ ~C20_Listed(a, blacklisted_addresses')
                /\ blacklisted_addresses' \subseteq blacklisted_addresses
                /\ \A e \in blacklisted_addresses \ blacklisted_addresses' :
                      C20_SameAddress(e, a)
                /\ ~C20_Listed(a, blacklisted_addresses)
                      => blacklisted_addresses' = blacklisted_addresses
      ]_vars

\* C20 witness: the address was on the blacklist (an analysis answered
\* "Token is blacklisted"), and the call that removed it spelled it "Ab"
\* while the entry is "ab".
C20_Witness ==
    /\ last.op = "remove_from_blacklist" /\ last.addr = <<"A", "b">>
    /\ <<"a", "b">> \in DOMAIN prior
    /\ prior[<<"a", "b">>].result.warnings = <<"Token is blacklisted">>
    /\ <<"a", "b">> \notin blacklisted_addresses

(***************************************************************************)
(* Further claims about the strategies, checked under SpecStrategies.      *)
(***************************************************************************)
\* C15: a closed position is never removed from, or overwritten in, its
\* strategy's positions map: every AltcoinPosition ever created is the one
\* the trader's map holds for its token, and a closed sniper position
\* stays in the sniper's map as it is.
C15_ClosedPositionRetained ==
    /\ [](\A i \in HeapIds :
             /\ at_heap[i].token_address \in DOMAIN at_positions
             /\ at_positions[at_heap[i].token_address] = i)
    /\ [][\A t \in DOMAIN sn_positions :
             sn_positions[t].status # "active"
             => (t \in DOMAIN sn_positions' /\ sn_positions'[t] = sn_positions[t])
       ]_vars

(***************************************************************************)
(* Claims about the signal combination, checked under SpecSignal.          *)
(***************************************************************************)
C18_Weight(triggered, w) == IF triggered THEN w ELSE 0
C18_Sum(ind) ==
    C18_Weight(ind.rsi < 30 \/ ind.rsi > 70, 3)
    + C18_Weight(ind.macd_signal # 0, 2)
    + C18_Weight(ind.ma_signal # 0, 2)
    + C18_Weight(ind.bb_signal # 0, 2)
    + C18_Weight(ind.volume_signal > 0, 1)

\* C18: for every indicator set the signal's strength equals min(1.0, sum
\* of the weights of the triggered indicators: RSI extreme 0.3, MACD 0.2,
\* MA 0.2, Bollinger 0.2, positive volume 0.1) and lies in [0, 1]; RSI < 30
\* with every other indicator neutral gives buy with strength 0.3, and all
\* indicators neutral gives hold with strength 0.
C18_StrengthIsWeightSum ==
    sig_signal # NoSignal =>
        /\ sig_signal.strength = Min(10, C18_Sum(sig_indicators))
        /\ 0 <= sig_signal.strength /\ sig_signal.strength <= 10
        /\ (/\ sig_indicators.rsi < 30
            /\ sig_indicators.macd_signal = 0 /\ sig_indicators.ma_signal = 0
            /\ sig_indicators.bb_signal = 0 /\ sig_indicators.volume_signal = 0)
           => sig_signal = [type |-> "buy", strength |-> 3]
        /\ (/\ sig_indicators.rsi >= 30 /\ sig_indicators.rsi <= 70
            /\ sig_indicators.macd_signal = 0 /\ sig_indicators.ma_signal = 0
            /\ sig_indicators.bb_signal = 0 /\ sig_indicators.volume_signal = 0)
           => sig_signal = [type |-> "hold", strength |-> 0]

\* C18 witness: an oversold RSI against three bearish indicators and a
\* positive volume: every weight counts, the sum reaches 1.0.
C18_Witness ==
    /\ sig_indicators = [rsi |-> 29, macd_signal |-> -1, ma_signal |-> -1,
                         bb_signal |-> -1, volume_signal |-> 1]
    /\ sig_signal = [type |-> "buy", strength |-> 10]

\* The directions in evaluation order: RSI, MACD, MA, Bollinger.
C19_Directions(ind) ==
    << IF ind.rsi < 30 THEN 1 ELSE IF ind.rsi > 70 THEN -1 ELSE 0,
       ind.macd_signal, ind.ma_signal, ind.bb_signal >>

\* The direction that stands after the first n indicators under the rule of
\* the claim: a non-neutral indicator takes the direction over unless the
\* direction that stands already opposes it.
RECURSIVE C19_Standing(_, _)
C19_Standing(dirs, n) ==
    IF n = 0 THEN 0
    ELSE LET before == C19_Standing(dirs, n - 1)
         IN  IF dirs[n] = 0 THEN before
             ELSE IF before = -dirs[n] THEN before
             ELSE dirs[n]

C19_TypeOf(d) == IF d > 0 THEN "buy" ELSE IF d < 0 THEN "sell" ELSE "hold"

\* C19: RSI sets the initial direction, and a later non-neutral indicator
\* among MACD, MA and Bollinger (in that order) determines signal_type
\* except that it never flips a direction that already opposes it; so an
\* extreme RSI fixes the type, and in general the first non-neutral
\* indicator does.
C19_DirectionRule ==
    sig_signal # NoSignal =>
        LET dirs == C19_Directions(sig_indicators)
            first == {i \in 1..4 : dirs[i] # 0 /\ \A j \in 1..(i - 1) : dirs[j] = 0}
        IN  /\ sig_signal.type = C19_TypeOf(C19_Standing(dirs, 4))
            /\ dirs[1] # 0 => sig_signal.type = C19_TypeOf(dirs[1])
            /\ \A i \in first : sig_signal.type = C19_TypeOf(dirs[i])
            /\ first = {} => sig_signal.type = "hold"

\* C19 witness: RSI neutral, MACD bullish, MA and Bollinger bearish: the
\* later indicators do not flip the direction MACD has set.
C19_Witness ==
    /\ sig_indicators = [rsi |-> 50, macd_signal |-> 1, ma_signal |-> -1,
                         bb_signal |-> -1, volume_signal |-> 0]
    /\ sig_signal.type = "buy"

(***************************************************************************)
(* Claims about the price oracle, checked under SpecPrice.                 *)
(***************************************************************************)
\* Twice the median of a sorted list of one to three prices.
C17_TwiceMedian(sorted) ==
    CASE Len(sorted) = 1 -> 2 * sorted[1]
      [] Len(sorted) = 2 -> sorted[1] + sorted[2]
      [] Len(sorted) = 3 -> 2 * sorted[2]

C17_Successful(answers) ==
    {i \in DOMAIN answers : answers[i].ok /\ answers[i].price > 0}

\* C17: get_token_price_eth, when it asks the liquidity sources, returns
\* the median of the prices of the sources that answered with a positive
\* price, for one, two and three such sources; failed sources are left out
\* without failing the query; with no such source it returns absent.
C17_MedianOfSuccessful ==
    [][\A t \in PriceTokens : \A answers \in DexRouterAnswers :
          (GetTokenPriceEth(t, answers) /\ ~PriceCacheValid(t))
          => IF C17_Successful(answers) = {}
             THEN px_returned' = NoPrice
             ELSE 2 * px_returned'
                    = C17_TwiceMedian(SortPrices(CollectPrices(answers)))
      ]_vars

(***************************************************************************)
(* Claims about the configuration, checked under SpecConfig.               *)
(***************************************************************************)
C11_Derived(pos, target, stop) ==
    /\ 100 * pos.target_price = pos.entry_price * target
    /\ 100 * pos.stop_loss_price = pos.entry_price * stop
    /\ pos.target_price > pos.entry_price
    /\ pos.entry_price > pos.stop_loss_price

\* C11: every position created by either strategy has target_price =
\* entry_price x profit-target multiplier and stop_loss_price =
\* entry_price x stop-loss multiplier, and target_price > entry_price >
\* stop_loss_price, under every configuration load_config accepts.
C11_TargetAboveEntryAboveStop ==
    /\ \A t \in DOMAIN sn_positions :
          C11_Derived(sn_positions[t], trading.memecoin_profit_target,
                      trading.memecoin_stop_loss)
    /\ \A i \in HeapIds :
          C11_Derived(at_heap[i], trading.altcoin_profit_target,
                      trading.altcoin_stop_loss)

(***************************************************************************)
(* Claims about failed swaps, checked under SpecSwaps.                     *)
(***************************************************************************)
\* C12: if the buy transaction fails (no transaction hash), no position is
\* created and total_invested, the balance and the cooldown timestamps are
\* unchanged; if the sell transaction fails, the position stays active with
\* every field unchanged and no total is updated, so that the next monitor
\* pass finds it as it was and attempts the close again.
C12_FailedSwapChangesNothing ==
    [][~swap_ok =>
          /\ \A t \in SniperTokens : \A l \in Launches :
                AnalyzeNewToken(t, l)
                => UNCHANGED <<sn_positions, sn_other_positions, sniperTotals,
                               sn_last_purchase_time>>
          /\ \A l \in Launches :
                SnipeOtherToken(l)
                => UNCHANGED <<sn_positions, sn_other_positions, sniperTotals,
                               sn_last_purchase_time>>
          /\ \A t \in SniperTokens : \A p \in SniperPrices :
                MonitorPosition(t, p)
                => UNCHANGED <<sn_positions, sn_other_positions, sniperTotals>>
          /\ \A t \in TraderTokens : \A ind \in IndicatorSets : \A p \in SignalPrices :
                SignalStep(t, ind, p)
                => UNCHANGED <<at_heap, at_positions, traderTotals>>
          /\ \A p \in TraderPrices :
                ManagePositionResume(p)
                => UNCHANGED <<at_heap, at_positions, traderTotals>>
      ]_vars

\* C12 witness: swaps fail while the sniper holds an active position that
\* is past its maximum hold time, which every monitor pass tries to close.
C12_Witness ==
    /\ ~swap_ok
    /\ SniperActive("t1")
    /\ now - sn_positions["t1"].entry_time > SniperMaxHold

(***************************************************************************)
(* Claims about start() and stop(), checked under SpecLifecycle.           *)
(***************************************************************************)
\* C16: after stop() is called on a running strategy, every loop task that
\* start() created completes its current pass and then exits, so that the
\* start() call eventually returns.
C16_StopLeadsToReturn ==
    stop_requested ~> (start_call # "gathering")

(***************************************************************************)
(* Claims C21, C25..C27 about the analyzer, checked under SpecAnalyzer.    *)
(***************************************************************************)
\* C21: clear_cache leaves the analysis cache empty and the blacklist
\* exactly as it was; add_to_blacklist and remove_from_blacklist leave the
\* analysis cache unchanged.
C21_CacheAndBlacklistFrames ==
    [][/\ ClearCache =>
             /\ DOMAIN analysis_cache' = {}
             /\ blacklisted_addresses' = blacklisted_addresses
       /\ \A a \in StrAddrs :
             (AddToBlacklist(a) \/ RemoveFromBlacklist(a))
             => analysis_cache' = analysis_cache
      ]_vars

\* C21 witness: the cache was cleared while an address is blacklisted.
C21_Witness ==
    /\ last.op = "clear_cache"
    /\ blacklisted_addresses # {}
    /\ DOMAIN analysis_cache = {}

\* C25: a cached SecurityResult whose age is at least the one-hour TTL is
\* never returned by analyze_contract: the call treats it as absent and
\* re-evaluates, the blacklist first and then the five checks, and a
\* freshly combined result replaces the stale entry.
C25_StaleEntryRecomputed ==
    [][\A a \in StrAddrs :
          (/\ Lower(a) \in DOMAIN analysis_cache
           /\ now - analysis_cache[Lower(a)].analysis_timestamp >= cache_duration
           /\ last'.op = "analyze" /\ last'.addr = a
           /\ \E env \in EnvFor(a) : AnalyzeContract(a, env))
          => /\ last'.path # "cache"
             /\ last'.result.analysis_timestamp = now
             /\ IF Lower(a) \in blacklisted_addresses
                THEN last'.path = "blacklist" /\ last'.checks_run = 0
                ELSE /\ last'.path = "combined" /\ last'.checks_run = 5
                     /\ analysis_cache'[Lower(a)] = last'.result
      ]_vars

\* C25 witness: a call made now found an entry one hour old and went on to
\* the blacklist test.
C25_Witness ==
    /\ last.op = "analyze" /\ last.path = "blacklist"
    /\ last.result.analysis_timestamp = now
    /\ Lower(last.addr) \in DOMAIN analysis_cache
    /\ now - analysis_cache[Lower(last.addr)].analysis_timestamp >= cache_duration

(***************************************************************************)
(* Claim C26 about the combination, checked under SpecCombine.             *)
(***************************************************************************)
\* The weights of the factors that the outputs r of the checks trigger,
\* summed as tenths.
C26_WeightSum(r) ==
    (IF r.hp.has_hp /\ r.hp.is_honeypot THEN 8 ELSE 0)
    + (IF r.hp.has_hp /\ ~r.hp.tax_null /\ r.hp.buy_tax > 10 THEN 2 ELSE 0)
    + (IF r.hp.has_hp /\ ~r.hp.tax_null /\ r.hp.sell_tax > 10 THEN 3 ELSE 0)
    + (IF r.hp.has_ts /\ r.hp.is_scam THEN 7 ELSE 0)
    + (IF "transfer_restriction" \in r.code.risk_factors THEN 3 ELSE 0)
    + (IF "blacklist_functions" \in r.code.risk_factors THEN 4 ELSE 0)
    + (IF "pause_functions" \in r.code.risk_factors THEN 2 ELSE 0)
    + (IF "mint_functions" \in r.code.risk_factors THEN 1 ELSE 0)
    + (IF ~r.verif.is_verified THEN 2 ELSE 0)
    + (IF r.tx.failure_rate > 30 THEN 3 ELSE 0)
    + (IF r.tx.bot_activity_score > 70 THEN 2 ELSE 0)

C26_Flagged(r) ==
    \/ r.hp.has_hp /\ r.hp.is_honeypot
    \/ r.hp.has_hp /\ ~r.hp.tax_null /\ r.hp.sell_tax > 50
    \/ r.hp.has_ts /\ r.hp.is_scam

\* The float f is k tenths up to the rounding of a few additions.
C26_Tenths(f, k) == f.t = k /\ f.e \in -160..160

\* C26: for every combination of check outputs _combine_analysis_results
\* yields risk_score = min(1.0, sum of the weights of the triggered
\* factors), and is_honeypot is true exactly when the API honeypot flag is
\* set, or sell tax > 50%, or the scam flag is set, or that risk is at
\* least 0.8.
C26_RiskIsCappedWeightSum ==
    comb_out # NoResult
    => /\ C26_Tenths(comb_out.risk_score, Min(10, C26_WeightSum(comb_results)))
       /\ comb_out.is_honeypot
            <=> (C26_Flagged(comb_results) \/ C26_WeightSum(comb_results) >= 8)

(***************************************************************************)
(* Claim C27 about the tasks of analyze_contract, checked under SpecGather.*)
(***************************************************************************)
C27_Finished(tasks) == \A k \in Checks : tasks[k] \in {"returned", "failed"}

\* C27: for an uncached, non-blacklisted address analyze_contract starts
\* all five checks together and combines the results only after every one
\* of them has returned or failed; a check that fails neither cancels
\* another check nor keeps it from completing.
C27_AllChecksJoined ==
    /\ [](ga_call.phase = "gathering"
            => \A k \in Checks : ga_tasks[k] = "pending" => ENABLED CheckStep(k))
    /\ [][/\ \A a \in StrAddrs :
               (/\ Path(a) = "combined"
                /\ ga_call'.phase = "gathering" /\ ga_call'.addr = a
                /\ ga_call.phase # "gathering")
               => \A k \in Checks : ga_tasks'[k] = "pending"
          /\ (last' # last /\ last'.op = "analyze" /\ last'.path = "combined")
               => /\ ga_call.phase = "gathering"
                  /\ C27_Finished(ga_tasks)
                  /\ last'.checks_run = 5
          /\ \A k \in Checks :
               CheckStep(k)
               => \A j \in Checks \ {k} : ga_tasks'[j] = ga_tasks[j]
         ]_vars

\* C27 witness: a combined result was returned after one check had failed
\* and the four others had returned.
C27_Witness ==
    /\ ga_call.phase = "returned"
    /\ last.op = "analyze" /\ last.path = "combined" /\ last.addr = ga_call.addr
    /\ Cardinality({k \in Checks : ga_tasks[k] = "failed"}) = 1
    /\ Cardinality({k \in Checks : ga_tasks[k] = "returned"}) = 4

(***************************************************************************)
(* Claim C22 about the start of the process, checked under SpecBoot.       *)
(***************************************************************************)
C22_Missing == \E v \in RequiredVars : boot_env[v] \in {Unset, ""}

C23_Converted(t) ==
    /\ t \in DOMAIN sn_positions'
    /\ sn_positions'[t].status = "active"
    /\ (t \notin DOMAIN sn_positions \/ sn_positions[t] # sn_positions'[t])

\* C23: an opportunity leaves the sniper's list when it is converted into
\* a position, and otherwise by pruning; right after a pruning pass the
\* list holds no opportunity detected more than one hour earlier.
C23_OpportunityDiscarded ==
    [][/\ \A t \in SniperTokens :
            C23_Converted(t)
            => \A i \in DOMAIN sn_opportunities' :
                   sn_opportunities'[i].token_address # t
       /\ CleanupOldOpportunities
            => \A i \in DOMAIN sn_opportunities' :
                   now - sn_opportunities'[i].detected_at <= OpportunityMaxAge
      ]_vars

(***************************************************************************)
(* Claim C24 about the polling loops, checked under SpecLifecycle.         *)
(***************************************************************************)
C24_Loops ==
    {"_monitor_positions", "_social_sentiment_monitor",
     "_cleanup_old_opportunities", "_price_monitoring_loop",
     "_signal_generation_loop", "_position_management_loop",
     "_portfolio_rebalancing_loop", "_performance_tracking_loop"}

C24_At(k, pc) == k \in DOMAIN task_pc /\ task_pc[k] = pc

\* C24: an exception raised inside one pass of a polling loop never ends
\* the loop: the loop sleeps and, unless is_running has become false,
\* starts another pass.
C24_ExceptionKeepsLoop ==
    /\ [][\A k \in C24_Loops :
             C24_At(k, "except") => (C24_At(k, "except")' \/ C24_At(k, "check")')]_vars
    /\ \A k \in C24_Loops :
          C24_At(k, "except") ~> (C24_At(k, "pass") \/ ~is_running)

\* C24 witness: a pass of the rebalancing loop has raised while the
\* strategy is running, and the loop is in its except branch.
C24_Witness ==
    C24_At("_portfolio_rebalancing_loop", "except") /\ is_running

(***************************************************************************)
(* Claim C28 about the monitor loops, checked under SpecMonitor.           *)
(***************************************************************************)
C28_SniperHolds(t) == t \in DOMAIN sn_positions /\ sn_positions[t].status = "active"
C28_TraderHolds(i) == i \in DOMAIN at_heap /\ at_heap[i].status = "active"

C28_SniperOverdue(t) ==
    C28_SniperHolds(t) /\ now - sn_positions[t].entry_time > SniperMaxHold

C28_TraderOverdue(i) ==
    C28_TraderHolds(i) /\ now - at_heap[i].entry_time > TraderMaxHold

\* C28: in live mode, with the monitor loop scheduled fairly, every active
\* position older than the max hold (24 hours for the sniper, 7 days for
\* the trader) is eventually closed, whatever the price oracle answers.
C28_OverdueEventuallyClosed ==
    /\ \A t \in SniperTokens :
          C28_SniperOverdue(t) ~> ~C28_SniperHolds(t)
    /\ \A i \in 1..MaxHeap :
          C28_TraderOverdue(i) ~> ~C28_TraderHolds(i)

C29_Statuses == {"active", "sold_profit", "sold_loss", "sold_timeout"}

\* C29: in both strategies the status of a position is always active or
\* closed with reason profit, loss or timeout, and a position leaves
\* active only as the outcome of an exit evaluation: price at or above the
\* target, price at or below the stop, or max hold exceeded.
C29_FourStatusesExitOnly ==
    /\ [](/\ \A t \in DOMAIN sn_positions : sn_positions[t].status \in C29_Statuses
          /\ \A i \in DOMAIN at_heap : at_heap[i].status \in C29_Statuses)
    /\ [][/\ \A t \in DOMAIN sn_positions :
               (sn_positions[t].status = "active" /\ sn_positions'[t].status # "active")
               => \E q \in SniperPrices \ {NoPrice} :
                     /\ MonitorPosition(t, q)
                     /\ ExitReason(sn_positions[t], q, SniperMaxHold) # "none"
          /\ \A i \in DOMAIN at_heap :
               (at_heap[i].status = "active" /\ at_heap'[i].status # "active")
               => \E q \in TraderPrices \ {NoPrice} :
                     /\ ManagePositionResume(q)
                     /\ ExitReason(at_heap[i], q, TraderMaxHold) # "none"
         ]_vars

\* pnl = investment * (p - entry_price) / entry_price, in cents
C30_Pnl(pos, q) == (pos.investment_usd * (q - pos.entry_price)) \div pos.entry_price

\* What the claim says of a step that closes the position pos at price q,
\* leaving it with the status closed and moving the total from before to
\* after.
C30_Rule(pos, q, closed, before, after) ==
    /\ after = before + C30_Pnl(pos, q)
    /\ q = pos.entry_price => (C30_Pnl(pos, q) = 0 /\ closed = "sold_timeout")
    /\ closed = "sold_profit" => C30_Pnl(pos, q) > 0
    /\ closed = "sold_loss" => C30_Pnl(pos, q) < 0

C30_SniperCloses(t) ==
    /\ t \in DOMAIN sn_positions
    /\ sn_positions[t].status = "active"
    /\ sn_positions'[t].status # "active"

C30_TraderCloses(i) ==
    /\ i \in DOMAIN at_heap
    /\ at_heap[i].status = "active"
    /\ at_heap'[i].status # "active"

\* C30: closing a position at price p credits investment * (p - entry) /
\* entry to the running total; closing at the entry price yields 0 and
\* happens only with reason timeout; a close with reason profit has a
\* positive pnl and a close with reason loss a negative one.
C30_PnlCreditedAndSigned ==
    [][/\ \A t \in SniperTokens : \A q \in SniperPrices :
            (C30_SniperCloses(t) /\ MonitorPosition(t, q))
            => C30_Rule(sn_positions[t], q, sn_positions'[t].status,
                        sn_total_profit, sn_total_profit')
       /\ \A i \in 1..MaxHeap : \A q \in TraderPrices :
            (C30_TraderCloses(i) /\ ManagePositionResume(q))
            => C30_Rule(at_heap[i], q, at_heap'[i].status,
                        at_total_profit_usd, at_total_profit_usd')
       /\ \A i \in 1..MaxHeap : \A q \in SignalPrices :
            (/\ C30_TraderCloses(i)
             /\ \E t \in TraderTokens : \E ind \in IndicatorSets : SignalStep(t, ind, q))
            => C30_Rule(at_heap[i], q, at_heap'[i].status,
                        at_total_profit_usd, at_total_profit_usd')
      ]_vars

(***************************************************************************)
(* Claim C31 about the execution gate of the swing strategy, checked under *)
(* SpecSignalLoop.                                                         *)
(***************************************************************************)
C31_Acted ==
    \/ at_heap' # at_heap
    \/ at_positions' # at_positions
    \/ at_available_balance_usd' # at_available_balance_usd

\* C31: a turn of the signal loop buys or sells only for a buy or sell
\* signal of strength at least 0.7 generated for a token with at least 50
\* price samples; a weaker signal, and any hold signal, changes no position
\* and no balance.
C31_ExecutionGate ==
    [][\A t \in TraderTokens, ind \in IndicatorSets, price \in SignalPrices :
          (C31_Acted /\ SignalLoopStep(t, ind, price))
          => /\ GenerateTradingSignal(ind).strength >= 7
             /\ GenerateTradingSignal(ind).type \in {"buy", "sell"}
             /\ at_price_history >= 50
      ]_vars

\* a position is held while the history has fallen below 50 samples
C31_Witness ==
    /\ \E t \in TraderTokens : HasActive(t)
    /\ at_price_history < 50

(***************************************************************************)
(* Claims C32, C33, C35 and C36 about the sizing, the rebalancing and the  *)
(* accounting of the swing strategy, checked under SpecSwing.              *)
(***************************************************************************)
\* min(available_balance_usd * 20%, altcoin_max_investment_usd), cents
C32_Size ==
    IF (at_available_balance_usd * 20) \div 100 < at_max_investment
    THEN (at_available_balance_usd * 20) \div 100
    ELSE at_max_investment

C32_Opens == Len(at_heap') = Len(at_heap) + 1

\* C32: every swing position is opened with min(available balance * 20%,
\* configured maximum) as evaluated at the buy, none is opened when that
\* amount is below 10 USD, no position has an investment below 10 USD or
\* above the configured maximum, and the available balance is never
\* negative.
C32_SizingRule ==
    /\ [](/\ \A i \in DOMAIN at_heap :
                /\ at_heap[i].investment_usd >= 1000
                /\ at_heap[i].investment_usd <= at_max_investment
          /\ at_available_balance_usd >= 0)
    /\ [][C32_Opens => /\ at_heap'[Len(at_heap')].investment_usd = C32_Size
                       /\ C32_Size >= 1000]_vars

\* a position sized by the balance (below the configured maximum) is held
C32_Witness ==
    \E i \in DOMAIN at_heap :
        /\ at_heap[i].investment_usd < at_max_investment
        /\ at_heap[i].status = "active"

\* (peak - current) / peak of the pass that has just completed, in
\* ten-thousandths
C33_PassDrawdown ==
    ((at_peak_portfolio_value' - at_portfolio_value_usd') * 10000)
        \div at_peak_portfolio_value'

\* C33: over rebalancing passes the peak never decreases and is at least
\* the portfolio value of the latest completed pass; max_drawdown never
\* decreases, stays within [0, 1] and is at least (peak - current) / peak
\* of every completed pass, also when the portfolio value is 0.
C33_PeakAndDrawdown ==
    /\ [](/\ at_peak_portfolio_value >= at_portfolio_value_usd
          /\ at_max_drawdown >= 0
          /\ at_max_drawdown <= 10000)
    /\ [][/\ at_peak_portfolio_value' >= at_peak_portfolio_value
          /\ at_max_drawdown' >= at_max_drawdown
          /\ \A p \in SwingPrices :
                RebalancePortfolio(p) => at_max_drawdown' >= C33_PassDrawdown
         ]_vars

\* a pass has completed below an earlier peak
C33_Witness ==
    /\ at_portfolio_value_usd > 0
    /\ at_portfolio_value_usd < at_peak_portfolio_value
    /\ at_max_drawdown > 0

\* available balance plus the investments of the first n position objects
\* that are active
RECURSIVE C35_Held(_, _, _)
C35_Held(heap, n, balance) ==
    IF n = 0 THEN balance
    ELSE C35_Held(heap, n - 1, balance)
         + (IF heap[n].status = "active" THEN heap[n].investment_usd ELSE 0)

C35_Before == C35_Held(at_heap, Len(at_heap), at_available_balance_usd)
C35_After == C35_Held(at_heap', Len(at_heap'), at_available_balance_usd')

\* C35: the available balance plus the investments of the active positions
\* equals the starting balance plus the realized pnl of the closes so far:
\* it starts at 1000 USD, a buy and a rebalancing pass (with its profit
\* reinvestment) leave it as it is, and a close at price q adds the pnl of
\* that close.
C35_AccountingConserved ==
    /\ [](at_heap = <<>> /\ at_total_profit_usd = 0 => C35_Before = 100000)
    /\ [][/\ \A p \in SwingPrices : RebalancePortfolio(p) => C35_After = C35_Before
          /\ \A q \in SwingPrices :
                (at_heap' # at_heap /\ ManagePositionResume(q))
                => C35_After = C35_Before + C30_Pnl(at_heap[at_pm.pos], q)
          /\ \A t \in TraderTokens, q \in SwingSignalPrices :
                (\E ind \in IndicatorSets : SignalStep(t, ind, q))
                => C35_After = C35_Before
                      + (IF at_heap' # at_heap /\ Len(at_heap') = Len(at_heap)
                         THEN C30_Pnl(at_heap[at_positions[t]], q) ELSE 0)
         ]_vars

\* C36: in the sniper successful_trades + failed_trades is the number of
\* positions that are not active; in the swing strategy total_trades is
\* the number of positions opened and profitable_trades never exceeds it.
C36_CountersMatchHistory ==
    /\ sn_successful_trades + sn_failed_trades
         = Cardinality({t \in DOMAIN sn_positions : sn_positions[t].status # "active"})
    /\ at_total_trades = Len(at_heap)
    /\ at_profitable_trades <= at_total_trades

(***************************************************************************)
(* Claim C38 about the sniper's positions map, checked under               *)
(* SpecStrategies.                                                         *)
(***************************************************************************)
\* C38: once a token has an entry in the sniper's positions map, active or
\* closed, every later snipe attempt for it is rejected, also after the
\* position has closed and the 30-second cooldown has elapsed: the entry is
\* never replaced and nothing more is invested for the token.
C38_OnePositionPerToken ==
    [][\A t \in SniperTokens :
          t \in DOMAIN sn_positions
          => /\ t \in DOMAIN sn_positions'
             /\ sn_positions'[t].entry_time = sn_positions[t].entry_time
             /\ sn_positions'[t].entry_price = sn_positions[t].entry_price
             /\ \A l \in Launches :
                   AnalyzeNewToken(t, l)
                   => /\ sn_positions' = sn_positions
                      /\ sn_total_invested' = sn_total_invested
                      /\ sn_last_purchase_time' = sn_last_purchase_time
      ]_vars

\* a token whose position is closed and whose cooldown has elapsed has been
\* launched again and has passed the criteria
C38_Witness ==
    \E t \in SniperTokens :
        /\ t \in DOMAIN sn_positions
        /\ sn_positions[t].status # "active"
        /\ \E i \in DOMAIN sn_opportunities :
              /\ sn_opportunities[i].token_address = t
              /\ sn_opportunities[i].detected_at - sn_last_purchase_time[t] >= 30

(***************************************************************************)
(* Claim C37 about the sniper's total_invested, checked under              *)
(* SpecExposure.                                                           *)
(***************************************************************************)
\* C37: every sniper position adds exactly max_memecoin_investment_usd to
\* total_invested, which is that amount times the number of positions
\* opened, never decreases and never exceeds 10 times the amount, so that
\* at most 10 positions are opened.  Amounts are compared in whole tenths
\* of a USD, which leaves the rounding of the float out of the comparison.
C37_InvestedBounded ==
    /\ [](/\ fl_total_invested.t = fl_max_investment * fl_positions
          /\ fl_total_invested.t <= 10 * fl_max_investment
          /\ fl_positions <= 10)
    /\ [][~FloatLess(fl_total_invested', fl_total_invested)]_vars

(***************************************************************************)
(* Claim C34 about send_alert, checked under SpecAlerts.                   *)
(***************************************************************************)
\* the time of the last alert of the type that was passed on, if any
C34_Open(alert_type) ==
    LET sent == Sent(alert_sent, alert_type)
    IN  sent = <<>> \/ now - sent[Len(sent)] >= alert_cooldown

\* C34: per alert type, two alerts passed on to the chat are at least
\* alert_cooldown seconds apart; an alert is passed on exactly when the last
\* alert of its type that was passed on is at least alert_cooldown seconds
\* old (or there is none), so that a suppressed alert does not restart the
\* window; a call of send_alert changes nothing for the other types.
C34_OnePerWindow ==
    /\ [](\A c \in DOMAIN alert_sent :
             \A i, j \in 1..Len(alert_sent[c]) :
                 i < j => alert_sent[c][j] - alert_sent[c][i] >= alert_cooldown)
    /\ [][\A c \in AlertTypes :
             SendAlert(c) =>
                 /\ Sent(alert_sent', c) =
                        IF C34_Open(c) THEN Append(Sent(alert_sent, c), now)
                        ELSE Sent(alert_sent, c)
                 /\ \A o \in AlertTypes \ {c} :
                        /\ Sent(alert_sent', o) = Sent(alert_sent, o)
                        /\ InCooldown(last_alert_time', o, now)
                               = InCooldown(last_alert_time, o, now)
                        /\ C34_Open(o)' = C34_Open(o)]_vars

\* two alerts of one type were passed on exactly one cooldown apart and an
\* alert of another type was passed on between them
C34_Witness ==
    /\ "profit" \in DOMAIN alert_sent
    /\ Len(alert_sent["profit"]) = 2
    /\ alert_sent["profit"][2] - alert_sent["profit"][1] = alert_cooldown
    /\ "error" \in DOMAIN alert_sent
    /\ alert_sent["error"][1] > alert_sent["profit"][1]
    /\ alert_sent["error"][1] < alert_sent["profit"][2]

(***************************************************************************)
(* Claim C39 about start() and stop(), checked under SpecRestart.          *)
(***************************************************************************)
\* the starts whose loop k has not returned
C39_Instances(k) == {i \in 1..Len(loop_instances) : loop_instances[i][k] # "done"}

\* C39: after any sequence of start and stop, at most one instance of each
\* polling loop is running, and start() on a running strategy starts no
\* loop.
C39_OneInstancePerLoop ==
    /\ [](\A k \in LoopTasks : Cardinality(C39_Instances(k)) <= 1)
    /\ [][StrategyStart /\ is_running => loop_instances' = loop_instances]_vars

====
